---------------------------- MODULE Spec2Model ----------------------------
(***************************************************************************)
(* A model of ghost-cursor (spoof.ts): the cursor session created by       *)
(* createCursor / createPersonaCursor.  The cursor state is the pair       *)
(* (location, moving).  Three logical flows act on it: the caller's flow   *)
(* of directed actions ("user"), the fire-and-forget drop move started by  *)
(* createPersonaCursor ("drop") and the self-rescheduling wandering task   *)
(* randomMove ("wander").  JavaScript runs each flow atomically between    *)
(* two awaits, so every action below is one such segment: it starts when   *)
(* an awaited promise settles and runs up to the next await.               *)
(*                                                                         *)
(* The plane is a small integer grid.  The browser is the environment: it  *)
(* answers every geometry query with any box of the grid (the element may  *)
(* move between two queries), settles every dispatch with success or       *)
(* failure, and may disconnect.                                            *)
(***************************************************************************)
EXTENDS Integers, Sequences, FiniteSets, TLC

VARIABLES
    location,         \* let location: Vector
    moving,           \* let moving: boolean
    connected,        \* page.browser().isConnected()
    pc,               \* per flow: the await it is suspended at
    kont,             \* per flow: where the running moveMouse returns to
    vectors,          \* per flow: the points moveMouse has still to settle; the
                      \*   dispatch of the first one is awaited
    spread,           \* per flow: the spreadOverride the running moveMouse gave path
    failed,           \* per flow: a dispatch of this replay failed (history)
    wasRandom,        \* per flow: the wasRandom local of move / moveTo
    op,               \* the caller's public call in progress
    optionsResolved,  \* move / click: the resolved options of that call
    iteration,        \* move: the argument of go
    destination,      \* move: the destination of the current attempt
    newBoundingBox,   \* move: the box fetched for the final check
    clickWasRandom,   \* click: its wasRandom local
    scrollCall,       \* scroll: its arguments, its loop index and the wheel
                      \*   deltas sent so far (history)
    lastPoint,        \* the start position, then the last point the browser took (history)
    outcome,          \* how the caller's last call ended ("none" while one runs)
    viewCall,         \* scrollIntoView: its options, the geometry it measured and
                      \*   the scrolling means it has invoked so far (history)
    sent,             \* the caller's call in progress has sent an input event (history)
    probe             \* the call of a pure helper under examination: its
                      \*   arguments and what it returned

moveVars == <<optionsResolved, iteration, destination, newBoundingBox>>
replayVars == <<kont, vectors, spread, failed>>
callVars == <<op, optionsResolved, iteration, destination, newBoundingBox,
              clickWasRandom, scrollCall, outcome, viewCall, sent>>
vars == <<location, moving, connected, pc, kont, vectors, spread, failed, wasRandom,
          op, optionsResolved, iteration, destination, newBoundingBox,
          clickWasRandom, scrollCall, lastPoint, outcome, viewCall, sent, probe>>

\* ------------------------------------------------------------------ bounds
MaxCoord == 1        \* the plane is the grid 0..MaxCoord in both axes
MaxMid == 0          \* a trajectory has 0..MaxMid points between start and end
MaxTriesBound == 2   \* maxTries is drawn from 0..MaxTriesBound

\* ------------------------------------------------------------------ geometry
Tasks == {"user", "drop", "wander"}
Coord == 0..MaxCoord
Points == [x : Coord, y : Coord]
RawCoord == -1..MaxCoord
RawPoints == [x : RawCoord, y : RawCoord]
origin == [x |-> 0, y |-> 0]
NoPoint == [x |-> -2, y |-> -2]
NoBox == [x |-> -2, y |-> -2, width |-> 0, height |-> 0]
NoSpread == 0 - 1    \* spreadOverride: undefined
NoOptions == [maxTries |-> 0, overshootThreshold |-> 0, destination |-> NoPoint,
              spreadOverride |-> NoSpread]
NoScroll == [x |-> 0, y |-> 0, scrollSpeed |-> 0, i |-> 0, sumX |-> 0, sumY |-> 0,
             at |-> NoPoint]
NoMetrics == [viewportWidth |-> 0, viewportHeight |-> 0, docHeight |-> 0, docWidth |-> 0,
              scrollPositionTop |-> 0, scrollPositionLeft |-> 0]
NoElemBox == [top |-> 0, left |-> 0, bottom |-> 0, right |-> 0]
NoView == [scrollSpeed |-> 0, inViewportMargin |-> 0, metrics |-> NoMetrics,
           elemBox |-> NoElemBox, measured |-> FALSE, isInViewport |-> FALSE,
           ladder |-> <<>>]
NoProbe == [fn |-> "none"]

\* the boxes getElementBox can answer with
Boxes == {b \in [x : Coord, y : Coord, width : Coord, height : Coord] :
             b.x + b.width <= MaxCoord /\ b.y + b.height <= MaxCoord}

Max(a, b) == IF a >= b THEN a ELSE b
Min(a, b) == IF a <= b THEN a ELSE b
Abs(a) == IF a < 0 THEN 0 - a ELSE a
clamp(target, lo, hi) == Min(hi, Max(lo, target))

add(a, b) == [x |-> a.x + b.x, y |-> a.y + b.y]
direction(a, b) == [x |-> b.x - a.x, y |-> b.y - a.y]
\* magnitude(v)^2; magnitude(v) > t is compared as magnitude(v)^2 > t^2 (t >= 0)
magnitude2(v) == v.x * v.x + v.y * v.y

\* a variant that hands the look-up table on as it is
clampPositive_Off(vs) == vs

\* clampPositive without the timestamps: every coordinate is raised to >= 0
clampPositive(vs) == [i \in 1..Len(vs) |-> [x |-> Max(0, vs[i].x), y |-> Max(0, vs[i].y)]]

\* curve.getLUT(steps): the look-up table of the Bezier curve from start to end.
\* Its first point is the curve's start and its last the curve's end; the
\* points between depend on random anchors and may leave the positive quadrant.
bezierLUT(start, end) ==
    {<<start>> \o mids \o <<end>> :
        mids \in UNION {[1..n -> RawPoints] : n \in 0..MaxMid}}

\* path(start, end, options): the clamped look-up table
path(start, end) == {clampPositive(lut) : lut \in bezierLUT(start, end)}

InGrid(p) == p.x \in RawCoord /\ p.y \in RawCoord

OVERSHOOT_SPREAD == 10
OVERSHOOT_RADIUS == 120

\* overshoot(coordinate, radius): a random point of the disc around coordinate
overshoot(coordinate, radius) ==
    {p \in RawPoints : magnitude2(direction(coordinate, p)) <= radius * radius}

\* a variant that overshoots at the threshold itself
shouldOvershoot_AtThreshold(a, b, threshold) ==
    magnitude2(direction(a, b)) >= threshold * threshold

shouldOvershoot(a, b, threshold) ==
    magnitude2(direction(a, b)) > threshold * threshold

\* a variant with the left and top edges inside
intersectsElement_Closed(vec, box) ==
    /\ vec.x >= box.x
    /\ vec.x <= box.x + box.width
    /\ vec.y >= box.y
    /\ vec.y <= box.y + box.height

intersectsElement(vec, box) ==
    /\ vec.x > box.x
    /\ vec.x <= box.x + box.width
    /\ vec.y > box.y
    /\ vec.y <= box.y + box.height

\* getRandomBoxPoint(box) with no padding: Math.random() is in [0, 1), so the
\* point is in [x, x + width) x [y, y + height)
getRandomBoxPoint(box) ==
    {p \in Points :
        /\ p.x >= box.x /\ (p.x < box.x + box.width \/ p.x = box.x)
        /\ p.y >= box.y /\ (p.y < box.y + box.height \/ p.y = box.y)}

\* ------------------------------------------------------------------ moveMouse
\* One pass of the for loop over the points left (the dispatch of the point
\* before has just settled, or the loop starts): either the loop is over, or
\* the wandering replay sees the flag and returns, or the dispatch of the
\* first point left is sent and awaited.
\* a variant in which no replay looks at the flag
abortOnMove_Never(t) == FALSE

abortOnMove(t) == t = "wander"

LoopReturns(t, vs) == vs = <<>> \/ (abortOnMove(t) /\ moving)

Return(t, k) ==
    /\ pc' = [pc EXCEPT ![t] = k]
    /\ kont' = [kont EXCEPT ![t] = "none"]
    /\ vectors' = [vectors EXCEPT ![t] = <<>>]
    /\ spread' = [spread EXCEPT ![t] = NoSpread]
    /\ failed' = [failed EXCEPT ![t] = FALSE]

\* the flow t calls moveMouse(target, {spreadOverride: sp}) and will continue at k
CallMoveMouse(t, target, sp, k) ==
    \E vs \in path(location, target) :
        IF LoopReturns(t, vs)
        THEN Return(t, k)
        ELSE /\ pc' = [pc EXCEPT ![t] = "mm"]
             /\ kont' = [kont EXCEPT ![t] = k]
             /\ vectors' = [vectors EXCEPT ![t] = vs]
             /\ spread' = [spread EXCEPT ![t] = sp]
             /\ failed' = [failed EXCEPT ![t] = FALSE]

\* the dispatch of the first point left settled: the next pass of the loop
LoopNext(t, fail) ==
    IF LoopReturns(t, Tail(vectors[t]))
    THEN Return(t, kont[t])
    ELSE /\ vectors' = [vectors EXCEPT ![t] = Tail(vectors[t])]
         /\ failed' = [failed EXCEPT ![t] = failed[t] \/ fail]
         /\ UNCHANGED <<pc, kont, spread>>

\* a variant that records the end of the trajectory once a dispatch resolved
DispatchOk_Ahead(t) ==
    /\ pc[t] = "mm"
    /\ connected
    /\ location' = vectors[t][Len(vectors[t])]
    /\ lastPoint' = Head(vectors[t])
    /\ LoopNext(t, FALSE)
    /\ UNCHANGED <<moving, connected, wasRandom, callVars, probe>>

\* await cdpClient.send('Input.dispatchMouseEvent', ...) resolved
DispatchOk(t) ==
    /\ pc[t] = "mm"
    /\ connected
    /\ location' = Head(vectors[t])
    /\ lastPoint' = Head(vectors[t])
    /\ LoopNext(t, FALSE)
    /\ UNCHANGED <<moving, connected, wasRandom, callVars, probe>>

\* a variant without the try / catch: the rejection goes up to the caller
DispatchFails_Throws(t) ==
    /\ pc[t] = "mm"
    /\ connected
    /\ t = "user"
    /\ pc' = [pc EXCEPT ![t] = "idle"]
    /\ op' = "none"
    /\ outcome' = "error"
    /\ UNCHANGED <<location, lastPoint, probe, moving, connected, replayVars, wasRandom,
                   moveVars, clickWasRandom, scrollCall, viewCall, sent>>

\* a variant that leaves the loop at the first failed dispatch
DispatchFails_Aborts(t) ==
    /\ pc[t] = "mm"
    /\ connected
    /\ Return(t, kont[t])
    /\ UNCHANGED <<location, lastPoint, probe, moving, connected, wasRandom, callVars>>

\* the send rejected while the browser is connected: log, next point
DispatchFails(t) ==
    /\ pc[t] = "mm"
    /\ connected
    /\ LoopNext(t, TRUE)
    /\ UNCHANGED <<location, lastPoint, probe, moving, connected, wasRandom, callVars>>

\* the send rejected and the browser is gone: moveMouse returns
DispatchDisconnected(t) ==
    /\ pc[t] = "mm"
    /\ ~connected
    /\ Return(t, kont[t])
    /\ UNCHANGED <<location, lastPoint, probe, moving, connected, wasRandom, callVars>>

\* ------------------------------------------------------------------ toggleRandomMove
toggleRandomMove(random) == moving' = ~random

UserToggle ==
    /\ pc["user"] = "idle"
    /\ \E random \in BOOLEAN : toggleRandomMove(random)
    /\ UNCHANGED <<location, lastPoint, probe, connected, pc, replayVars, wasRandom, callVars>>

\* the caller's call returns or rejects: its locals are gone (viewCall stays
\* as the record of the last scrollIntoView)
Finish(result) ==
    /\ op' = "none"
    /\ outcome' = result
    /\ optionsResolved' = NoOptions
    /\ iteration' = 0
    /\ destination' = NoPoint
    /\ newBoundingBox' = NoBox
    /\ clickWasRandom' = FALSE
    /\ scrollCall' = NoScroll
    /\ sent' = FALSE
    /\ wasRandom' = [wasRandom EXCEPT !["user"] = FALSE]

\* ------------------------------------------------------------------ moveTo / moveBy
\* moveTo(destination) up to its first await, by flow t
MoveToBegin(t, dest) ==
    /\ wasRandom' = [wasRandom EXCEPT ![t] = ~moving]
    /\ toggleRandomMove(FALSE)
    /\ CallMoveMouse(t, dest, NoSpread, "moveTo_after")
    /\ UNCHANGED <<location, lastPoint, probe, connected>>

UserMoveTo ==
    /\ pc["user"] = "idle"
    /\ \E dest \in RawPoints : MoveToBegin("user", dest)
    /\ op' = "moveTo"
    /\ outcome' = "none"
    /\ sent' = (pc'["user"] = "mm")
    /\ UNCHANGED <<moveVars, clickWasRandom, scrollCall, viewCall>>

UserMoveBy ==
    /\ pc["user"] = "idle"
    /\ \E delta \in {d \in [x : -1..1, y : -1..1] : InGrid(add(location, d))} :
          MoveToBegin("user", add(location, delta))
    /\ op' = "moveBy"
    /\ outcome' = "none"
    /\ sent' = (pc'["user"] = "mm")
    /\ UNCHANGED <<moveVars, clickWasRandom, scrollCall, viewCall>>

\* a variant that leaves the flag raised
MoveToAfter_NoRestore(t) ==
    /\ pc[t] = "moveTo_after"
    /\ pc' = [pc EXCEPT ![t] = "moveTo_delay"]
    /\ UNCHANGED <<location, lastPoint, probe, moving, connected, replayVars, wasRandom, callVars>>

\* moveMouse returned: restore the flag, then await delay(moveDelay)
MoveToAfter(t) ==
    /\ pc[t] = "moveTo_after"
    /\ toggleRandomMove(wasRandom[t])
    /\ pc' = [pc EXCEPT ![t] = "moveTo_delay"]
    /\ UNCHANGED <<location, lastPoint, probe, connected, replayVars, wasRandom, callVars>>

\* the delay is over: moveTo returns
UserMoveToDone ==
    /\ pc["user"] = "moveTo_delay"
    /\ pc' = [pc EXCEPT !["user"] = "idle"]
    /\ Finish("resolved")
    /\ UNCHANGED <<location, lastPoint, probe, moving, connected, replayVars, viewCall>>

DropMoveToDone ==
    /\ pc["drop"] = "moveTo_delay"
    /\ pc' = [pc EXCEPT !["drop"] = "done"]
    /\ wasRandom' = [wasRandom EXCEPT !["drop"] = FALSE]
    /\ UNCHANGED <<location, lastPoint, probe, moving, connected, replayVars, callVars>>

\* ------------------------------------------------------------------ move
\* The options a move or click call is resolved with.  maxTries >= 0, so the
\* test of go(0), 0 > maxTries, is false and the first attempt always starts.
MoveOptions(tries, thresholds, offsets, spreads) ==
    [maxTries : tries, overshootThreshold : thresholds, destination : offsets,
     spreadOverride : spreads]

\* a variant that does not raise the flag
MoveBegin_NoToggle(o) ==
    /\ wasRandom' = [wasRandom EXCEPT !["user"] = ~moving]
    /\ optionsResolved' = o
    /\ iteration' = 0
    /\ pc' = [pc EXCEPT !["user"] = "move_getElement"]
    /\ UNCHANGED <<location, lastPoint, probe, moving, connected, replayVars, destination,
                   newBoundingBox>>

\* move(selector, options) up to its first await: go(0) awaits getElement
MoveBegin(o) ==
    /\ wasRandom' = [wasRandom EXCEPT !["user"] = ~moving]
    /\ toggleRandomMove(FALSE)
    /\ optionsResolved' = o
    /\ iteration' = 0
    /\ pc' = [pc EXCEPT !["user"] = "move_getElement"]
    /\ UNCHANGED <<location, lastPoint, probe, connected, replayVars, destination, newBoundingBox>>

UserMove(options) ==
    /\ pc["user"] = "idle"
    /\ \E o \in options : MoveBegin(o)
    /\ op' = "move"
    /\ outcome' = "none"
    /\ sent' = FALSE
    /\ UNCHANGED <<clickWasRandom, scrollCall, viewCall>>

\* go throws, or a call it awaits rejects: the rejection goes up through move
\* (and click) to the caller; no statement after the awaits runs
Reject(result) ==
    /\ pc' = [pc EXCEPT !["user"] = "idle"]
    /\ Finish(result)
    /\ UNCHANGED <<location, lastPoint, probe, moving, connected, replayVars, viewCall>>

\* go(i), called from the frame that holds the box seen: the retry budget is
\* tested before anything else
Go(i, seen) ==
    IF i > optionsResolved.maxTries
    THEN Reject("unreachable")
    ELSE /\ iteration' = i
         /\ newBoundingBox' = seen
         /\ pc' = [pc EXCEPT !["user"] = "move_getElement"]
         /\ destination' = NoPoint
         /\ UNCHANGED <<location, lastPoint, probe, moving, connected, replayVars, wasRandom, op,
                        optionsResolved, clickWasRandom, scrollCall, viewCall, outcome, sent>>

\* a variant that fetches the box without scrolling the element into view
MoveGetElement_NoScroll ==
    /\ pc["user"] = "move_getElement"
    /\ pc' = [pc EXCEPT !["user"] = "move_box"]
    /\ newBoundingBox' = NoBox
    /\ UNCHANGED <<location, lastPoint, probe, moving, connected, replayVars, wasRandom, op,
                   optionsResolved, iteration, destination,
                   clickWasRandom, scrollCall, viewCall, outcome, sent>>

\* getElement resolved: scrollIntoView(elem) is awaited
MoveGetElement ==
    /\ pc["user"] = "move_getElement"
    /\ pc' = [pc EXCEPT !["user"] = "move_scroll"]
    /\ newBoundingBox' = NoBox
    /\ UNCHANGED <<location, lastPoint, probe, moving, connected, replayVars, wasRandom, op,
                   optionsResolved, iteration, destination,
                   clickWasRandom, scrollCall, viewCall, outcome, sent>>

\* a variant that looks the selector up only after the trajectory
MoveNotFound_Late ==
    /\ pc["user"] = "move_refetch"
    /\ Reject("notfound")

\* the selector resolves to no element
MoveNotFound ==
    /\ pc["user"] = "move_getElement"
    /\ Reject("notfound")

\* scrollIntoView returned (it changes neither location nor moving; what it
\* does to the page shows in the boxes fetched next): getElementBox is awaited
MoveScrolled ==
    /\ pc["user"] = "move_scroll"
    /\ pc' = [pc EXCEPT !["user"] = "move_box"]
    /\ \E wheel \in BOOLEAN : sent' = (sent \/ wheel)
    /\ UNCHANGED <<location, lastPoint, probe, moving, connected, replayVars, wasRandom, op,
                   moveVars, clickWasRandom, scrollCall, outcome, viewCall>>

\* scrollIntoView or getElementBox rejected (every fallback failed)
MoveDriverFails ==
    /\ pc["user"] \in {"move_scroll", "move_box", "move_check"}
    /\ Reject("error")

\* getElementBox resolved with box: pick the destination, then overshoot or
\* go straight; the first moveMouse is awaited
MoveAim ==
    /\ pc["user"] = "move_box"
    /\ \E box \in Boxes :
         \E dest \in IF optionsResolved.destination # NoPoint
                     THEN {add(box, optionsResolved.destination)}
                     ELSE getRandomBoxPoint(box) :
            /\ InGrid(dest)
            /\ destination' = dest
            /\ IF shouldOvershoot(location, dest, optionsResolved.overshootThreshold)
               THEN \E o \in overshoot(dest, OVERSHOOT_RADIUS) :
                       CallMoveMouse("user", o, optionsResolved.spreadOverride, "move_step2")
               ELSE CallMoveMouse("user", dest, optionsResolved.spreadOverride, "move_refetch")
    /\ UNCHANGED <<location, lastPoint, probe, moving, connected, wasRandom, op, optionsResolved,
                   iteration, newBoundingBox, clickWasRandom, scrollCall, viewCall, outcome>>
    /\ sent' = TRUE

\* back from the overshoot point: moveMouse({...box, ...destination},
\* {spreadOverride: OVERSHOOT_SPREAD})
MoveStep2 ==
    /\ pc["user"] = "move_step2"
    /\ CallMoveMouse("user", destination, OVERSHOOT_SPREAD, "move_refetch")
    /\ UNCHANGED <<location, lastPoint, probe, moving, connected, wasRandom, op, optionsResolved,
                   iteration, destination, newBoundingBox, clickWasRandom,
                   scrollCall, viewCall, outcome>>
    /\ sent' = TRUE

\* the last moveMouse returned: getElementBox is awaited again
MoveRefetch ==
    /\ pc["user"] = "move_refetch"
    /\ pc' = [pc EXCEPT !["user"] = "move_check"]
    /\ UNCHANGED <<location, lastPoint, probe, moving, connected, replayVars, wasRandom, callVars>>

\* a variant that retries with go(iteration)
MoveCheck_SameIteration ==
    /\ pc["user"] = "move_check"
    /\ \E box \in Boxes :
          IF ~intersectsElement(location, box)
          THEN Go(iteration, box)
          ELSE /\ newBoundingBox' = box
               /\ destination' = NoPoint
               /\ pc' = [pc EXCEPT !["user"] = "move_after"]
               /\ UNCHANGED <<location, lastPoint, probe, moving, connected, replayVars, wasRandom, op,
                              optionsResolved, iteration, clickWasRandom, scrollCall, viewCall,
                              outcome, sent>>

\* the new box is there: arrived, or go(iteration + 1)
MoveCheck ==
    /\ pc["user"] = "move_check"
    /\ \E box \in Boxes :
          IF ~intersectsElement(location, box)
          THEN Go(iteration + 1, box)
          ELSE /\ newBoundingBox' = box
               /\ destination' = NoPoint
               /\ pc' = [pc EXCEPT !["user"] = "move_after"]
               /\ UNCHANGED <<location, lastPoint, probe, moving, connected, replayVars, wasRandom, op,
                              optionsResolved, iteration, clickWasRandom, scrollCall, viewCall,
                              outcome, sent>>

\* go(0) returned: restore the flag, then await delay(moveDelay)
MoveAfter ==
    /\ pc["user"] = "move_after"
    /\ toggleRandomMove(wasRandom["user"])
    /\ pc' = [pc EXCEPT !["user"] = "move_delay"]
    /\ newBoundingBox' = NoBox
    /\ UNCHANGED <<location, lastPoint, probe, connected, replayVars, wasRandom, op, optionsResolved,
                   iteration, destination, clickWasRandom, scrollCall, viewCall,
                   outcome, sent>>

\* the delay is over: move returns, to the caller or into click
MoveDone ==
    /\ pc["user"] = "move_delay"
    /\ IF op = "click"
       THEN /\ pc' = [pc EXCEPT !["user"] = "click_hesitate"]
            /\ optionsResolved' = NoOptions
            /\ iteration' = 0
            /\ wasRandom' = [wasRandom EXCEPT !["user"] = FALSE]
            /\ UNCHANGED <<op, destination, newBoundingBox,
                           clickWasRandom, scrollCall, viewCall, outcome, sent>>
       ELSE /\ pc' = [pc EXCEPT !["user"] = "idle"]
            /\ Finish("resolved")
    /\ UNCHANGED <<location, lastPoint, probe, moving, connected, replayVars, viewCall>>

\* ------------------------------------------------------------------ click / mouseDown / mouseUp
\* a variant whose nested move reads the flag as it was before the click
UserClick_StaleFlag(options) ==
    /\ pc["user"] = "idle"
    /\ clickWasRandom' = ~moving
    /\ toggleRandomMove(FALSE)
    /\ op' = "click"
    /\ \/ \E o \in options :
            /\ optionsResolved' = o
            /\ pc' = [pc EXCEPT !["user"] = "move_getElement"]
            /\ wasRandom' = [wasRandom EXCEPT !["user"] = ~moving]
       \/ /\ optionsResolved' = NoOptions
          /\ pc' = [pc EXCEPT !["user"] = "click_hesitate"]
          /\ wasRandom' = [wasRandom EXCEPT !["user"] = FALSE]
    /\ iteration' = 0
    /\ outcome' = "none"
    /\ sent' = FALSE
    /\ UNCHANGED <<location, lastPoint, probe, connected, replayVars, destination, newBoundingBox,
                   scrollCall, viewCall>>

\* click(selector, options) up to its first await: with a selector that is
\* the getElement of the nested move, whose wasRandom reads the raised flag
UserClick(options) ==
    /\ pc["user"] = "idle"
    /\ clickWasRandom' = ~moving
    /\ toggleRandomMove(FALSE)
    /\ op' = "click"
    /\ \/ \E o \in options :
            /\ optionsResolved' = o
            /\ pc' = [pc EXCEPT !["user"] = "move_getElement"]
       \/ /\ optionsResolved' = NoOptions
          /\ pc' = [pc EXCEPT !["user"] = "click_hesitate"]
    /\ wasRandom' = [wasRandom EXCEPT !["user"] = FALSE]
    /\ iteration' = 0
    /\ outcome' = "none"
    /\ sent' = FALSE
    /\ UNCHANGED <<location, lastPoint, probe, connected, replayVars, destination, newBoundingBox,
                   scrollCall, viewCall>>

\* delay(hesitate) is over: mouseDown sends mousePressed
ClickHesitated ==
    /\ pc["user"] = "click_hesitate"
    /\ pc' = [pc EXCEPT !["user"] = "click_down"]
    /\ sent' = TRUE
    /\ UNCHANGED <<location, lastPoint, probe, moving, connected, replayVars, wasRandom, op,
                   moveVars, clickWasRandom, scrollCall, outcome, viewCall>>

\* mousePressed settled: delay(waitForClick), or the catch block and delay(moveDelay)
ClickDown ==
    /\ pc["user"] = "click_down"
    /\ \/ connected /\ pc' = [pc EXCEPT !["user"] = "click_wait"]
       \/ pc' = [pc EXCEPT !["user"] = "click_delay"]
    /\ UNCHANGED <<location, lastPoint, probe, moving, connected, replayVars, wasRandom, callVars>>

\* delay(waitForClick) is over: mouseUp sends mouseReleased
ClickWaited ==
    /\ pc["user"] = "click_wait"
    /\ pc' = [pc EXCEPT !["user"] = "click_up"]
    /\ UNCHANGED <<location, lastPoint, probe, moving, connected, replayVars, wasRandom, callVars>>

\* mouseReleased settled, either way: delay(moveDelay)
ClickUp ==
    /\ pc["user"] = "click_up"
    /\ pc' = [pc EXCEPT !["user"] = "click_delay"]
    /\ UNCHANGED <<location, lastPoint, probe, moving, connected, replayVars, wasRandom, callVars>>

\* delay(moveDelay) is over: restore the flag, click returns
ClickDone ==
    /\ pc["user"] = "click_delay"
    /\ toggleRandomMove(clickWasRandom)
    /\ pc' = [pc EXCEPT !["user"] = "idle"]
    /\ Finish("resolved")
    /\ UNCHANGED <<location, lastPoint, probe, connected, replayVars, viewCall>>

\* mouseDown() / mouseUp() called by the caller: one dispatch, no flag
UserButton ==
    /\ pc["user"] = "idle"
    /\ \E action \in {"mouseDown", "mouseUp"} : op' = action
    /\ pc' = [pc EXCEPT !["user"] = "button"]
    /\ outcome' = "none"
    /\ sent' = TRUE
    /\ UNCHANGED <<location, lastPoint, probe, moving, connected, replayVars, wasRandom, moveVars,
                   clickWasRandom, scrollCall, viewCall>>

ButtonDone ==
    /\ pc["user"] = "button"
    /\ pc' = [pc EXCEPT !["user"] = "idle"]
    /\ \/ connected /\ Finish("resolved")
       \/ Finish("error")
    /\ UNCHANGED <<location, lastPoint, probe, moving, connected, replayVars, viewCall>>

\* ------------------------------------------------------------------ scroll
\* Lengths along the longer axis are kept in tenths: for a scrollSpeed
\* between 90 and 100 the step scale(scrollSpeed, [90, 100], [90, larger])
\* is a multiple of 1 / (100 - 90).
MIN_SPEED == 1
MAX_SPEED == 100
EXP_SCALE_START == 90
Tenths == MAX_SPEED - EXP_SCALE_START

scrollSpeedOf(c) == clamp(c.scrollSpeed, MIN_SPEED, MAX_SPEED)
xDirection(c) == IF c.x < 0 THEN 0 - 1 ELSE 1
yDirection(c) == IF c.y < 0 THEN 0 - 1 ELSE 1
largerDistanceDir(c) == IF Abs(c.x) > Abs(c.y) THEN "x" ELSE "y"
largerDistance(c) == IF largerDistanceDir(c) = "x" THEN Abs(c.x) ELSE Abs(c.y)
shorterDistance(c) == IF largerDistanceDir(c) = "x" THEN Abs(c.y) ELSE Abs(c.x)

\* scale(value, [a, b], [c, d]) * (b - a)
scaleTimes(value, range1, range2) ==
    (value - range1[1]) * (range2[2] - range2[1]) + range2[1] * (range1[2] - range1[1])

\* a variant without the scaling above EXP_SCALE_START
largerDistanceScrollStep_Linear(c) == scrollSpeedOf(c) * Tenths

\* largerDistanceScrollStep, in tenths
largerDistanceScrollStep(c) ==
    IF scrollSpeedOf(c) < EXP_SCALE_START
    THEN scrollSpeedOf(c) * Tenths
    ELSE scaleTimes(scrollSpeedOf(c), <<EXP_SCALE_START, MAX_SPEED>>,
                    <<EXP_SCALE_START, largerDistance(c)>>)

\* Math.floor(largerDistance / largerDistanceScrollStep); 0 / 0 is NaN, and
\* the loop test i < NaN is false as it is for 0
numSteps(c) ==
    IF largerDistanceScrollStep(c) = 0 THEN 0
    ELSE (largerDistance(c) * Tenths) \div largerDistanceScrollStep(c)

\* largerDistance % largerDistanceScrollStep, in tenths
largerDistanceRemainder(c) == (largerDistance(c) * Tenths) % largerDistanceScrollStep(c)
shorterDistanceScrollStep(c) == shorterDistance(c) \div numSteps(c)
shorterDistanceRemainder(c) == shorterDistance(c) % numSteps(c)

\* a variant whose last event carries no remainder
wheelDelta_NoRemainder(c, i) ==
    IF largerDistanceDir(c) = "x"
    THEN [x |-> largerDistanceScrollStep(c) * xDirection(c),
          y |-> shorterDistanceScrollStep(c) * Tenths * yDirection(c)]
    ELSE [x |-> shorterDistanceScrollStep(c) * Tenths * xDirection(c),
          y |-> largerDistanceScrollStep(c) * yDirection(c)]

\* the deltaX and deltaY of the wheel event of pass i of the loop, in tenths
wheelDelta(c, i) ==
    LET last == i = numSteps(c) - 1
        longerDistanceDelta ==
            largerDistanceScrollStep(c) + (IF last THEN largerDistanceRemainder(c) ELSE 0)
        shorterDistanceDelta ==
            (shorterDistanceScrollStep(c) + (IF last THEN shorterDistanceRemainder(c) ELSE 0))
                * Tenths
    IN  IF largerDistanceDir(c) = "x"
        THEN [x |-> longerDistanceDelta * xDirection(c), y |-> shorterDistanceDelta * yDirection(c)]
        ELSE [x |-> shorterDistanceDelta * xDirection(c), y |-> longerDistanceDelta * yDirection(c)]

\* this.scroll(delta, {scrollSpeed: speed}) called from inside an action, up
\* to its first await
CallScroll(delta, speed) ==
    LET c == [x |-> delta.x, y |-> delta.y, scrollSpeed |-> speed,
              i |-> 0, sumX |-> 0, sumY |-> 0, at |-> NoPoint]
    IN  /\ scrollCall' = [c EXCEPT !.at = IF numSteps(c) > 0 THEN location ELSE @]
        /\ pc' = [pc EXCEPT !["user"] =
                     IF numSteps(c) > 0 THEN "scroll_wheel" ELSE "scroll_delay"]
        /\ sent' = (sent \/ numSteps(c) > 0)

\* scroll(delta, options) up to its first await: the first wheel event, or
\* with no step to make delay(scrollDelay)
UserScroll(deltas, speeds) ==
    /\ pc["user"] = "idle"
    /\ \E delta \in deltas, speed \in speeds :
         LET c == [x |-> delta.x, y |-> delta.y, scrollSpeed |-> speed,
                   i |-> 0, sumX |-> 0, sumY |-> 0, at |-> NoPoint]
         IN  /\ scrollCall' = [c EXCEPT !.at = IF numSteps(c) > 0 THEN location ELSE @]
             /\ pc' = [pc EXCEPT !["user"] =
                          IF numSteps(c) > 0 THEN "scroll_wheel" ELSE "scroll_delay"]
             /\ sent' = (numSteps(c) > 0)
    /\ op' = "scroll"
    /\ outcome' = "none"
    /\ UNCHANGED <<location, lastPoint, probe, moving, connected, replayVars, wasRandom, moveVars,
                   clickWasRandom, viewCall>>

\* a variant whose events all carry the place of the first one
WheelOk_SamePlace ==
    /\ pc["user"] = "scroll_wheel"
    /\ connected
    /\ scrollCall' = [scrollCall EXCEPT
                         !.i = @ + 1,
                         !.sumX = @ + wheelDelta(scrollCall, scrollCall.i).x,
                         !.sumY = @ + wheelDelta(scrollCall, scrollCall.i).y]
    /\ pc' = [pc EXCEPT !["user"] =
                 IF scrollCall.i + 1 < numSteps(scrollCall)
                 THEN "scroll_wheel" ELSE "scroll_delay"]
    /\ UNCHANGED <<location, lastPoint, probe, moving, connected, replayVars, wasRandom, op, moveVars,
                   clickWasRandom, outcome, viewCall, sent>>

\* the mouseWheel dispatch of pass i resolved: the next pass, whose event
\* carries x: location.x, y: location.y as they are now, or the delay
WheelOk ==
    /\ pc["user"] = "scroll_wheel"
    /\ connected
    /\ scrollCall' = [scrollCall EXCEPT
                         !.i = @ + 1,
                         !.sumX = @ + wheelDelta(scrollCall, scrollCall.i).x,
                         !.sumY = @ + wheelDelta(scrollCall, scrollCall.i).y,
                         !.at = IF scrollCall.i + 1 < numSteps(scrollCall)
                                THEN location ELSE @]
    /\ pc' = [pc EXCEPT !["user"] =
                 IF scrollCall.i + 1 < numSteps(scrollCall)
                 THEN "scroll_wheel" ELSE "scroll_delay"]
    /\ UNCHANGED <<location, lastPoint, probe, moving, connected, replayVars, wasRandom, op, moveVars,
                   clickWasRandom, outcome, viewCall, sent>>

\* the behavior handed to the element's own scrollIntoView
jsBehavior(c) == IF scrollSpeedOf(c) < EXP_SCALE_START THEN "js_smooth" ELSE "js_instant"

\* the mouseWheel dispatch rejected: scroll rejects, to the caller or into the
\* catch block of scrollIntoView, which awaits elem.evaluate(e => e.scrollIntoView(..))
WheelFails ==
    /\ pc["user"] = "scroll_wheel"
    /\ IF op = "scrollIntoView"
       THEN /\ pc' = [pc EXCEPT !["user"] = "view_js"]
            /\ viewCall' = [viewCall EXCEPT !.ladder = Append(@, jsBehavior(viewCall))]
            /\ scrollCall' = NoScroll
            /\ UNCHANGED <<location, lastPoint, probe, moving, connected, replayVars, wasRandom,
                           op, moveVars, clickWasRandom, outcome, sent>>
       ELSE Reject("error")

\* delay(scrollDelay) is over: scroll returns
ScrollDone ==
    /\ pc["user"] = "scroll_delay"
    /\ pc' = [pc EXCEPT !["user"] = "idle"]
    /\ Finish("resolved")
    /\ UNCHANGED <<location, lastPoint, probe, moving, connected, replayVars, viewCall>>

\* ------------------------------------------------------------------ scrollTo
\* scrollTo(destination, options) up to its first await, page.evaluate
UserScrollTo ==
    /\ pc["user"] = "idle"
    /\ pc' = [pc EXCEPT !["user"] = "scrollTo_metrics"]
    /\ op' = "scrollTo"
    /\ outcome' = "none"
    /\ sent' = FALSE
    /\ UNCHANGED <<location, lastPoint, probe, moving, connected, replayVars, wasRandom,
                   moveVars, clickWasRandom, scrollCall, viewCall>>

\* the delta scrollTo hands to scroll for the metrics m; the destination is
\* an edge of the document by name, or a partial vector (a function on a
\* subset of {x, y})
scrollToDelta(to, m) ==
    LET vec == CASE to.kind = "top" -> [k \in {"y"} |-> 0]
                 [] to.kind = "bottom" -> [k \in {"y"} |-> m.docHeight]
                 [] to.kind = "left" -> [k \in {"x"} |-> 0]
                 [] to.kind = "right" -> [k \in {"x"} |-> m.docWidth]
                 [] OTHER -> to.vector
    IN  [x |-> IF "x" \in DOMAIN vec THEN vec["x"] - m.scrollPositionLeft ELSE 0,
         y |-> IF "y" \in DOMAIN vec THEN vec["y"] - m.scrollPositionTop ELSE 0]

\* page.evaluate resolved with m: this.scroll(delta, optionsResolved) is
\* awaited (the arguments of the call are drawn here, where they are read)
ScrollToMeasured(destinations, metrics, speeds) ==
    /\ pc["user"] = "scrollTo_metrics"
    /\ \E to \in destinations, m \in metrics, speed \in speeds :
          CallScroll(scrollToDelta(to, m), speed)
    /\ UNCHANGED <<location, lastPoint, probe, moving, connected, replayVars, wasRandom, op,
                   moveVars, clickWasRandom, outcome, viewCall>>

\* page.evaluate rejected: scrollTo rejects
ScrollToFails ==
    /\ pc["user"] = "scrollTo_metrics"
    /\ Reject("error")

\* ------------------------------------------------------------------ scrollIntoView
\* Lengths are whole pixels.  c is the record of the call: its options, the
\* metrics page.evaluate answered and the box getElementBox answered
\* (relative to the viewport).
marginedBox(c) ==
    [top |-> c.elemBox.top - c.inViewportMargin,
     left |-> c.elemBox.left - c.inViewportMargin,
     bottom |-> c.elemBox.bottom + c.inViewportMargin,
     right |-> c.elemBox.right + c.inViewportMargin]

marginedBoxRelativeToDoc(c) ==
    [top |-> marginedBox(c).top + c.metrics.scrollPositionTop,
     left |-> marginedBox(c).left + c.metrics.scrollPositionLeft,
     bottom |-> marginedBox(c).bottom + c.metrics.scrollPositionTop,
     right |-> marginedBox(c).right + c.metrics.scrollPositionLeft]

\* a variant that does not cut the margined box at the document's edges
targetBox_Unclamped(c) == marginedBox(c)

targetBox(c) ==
    [top |-> Max(marginedBoxRelativeToDoc(c).top, 0) - c.metrics.scrollPositionTop,
     left |-> Max(marginedBoxRelativeToDoc(c).left, 0) - c.metrics.scrollPositionLeft,
     bottom |-> Min(marginedBoxRelativeToDoc(c).bottom, c.metrics.docHeight)
                   - c.metrics.scrollPositionTop,
     right |-> Min(marginedBoxRelativeToDoc(c).right, c.metrics.docWidth)
                  - c.metrics.scrollPositionLeft]

\* a variant that never finds the element in view
isInViewport_Never(c) == FALSE

isInViewport(c) ==
    /\ targetBox(c).top >= 0
    /\ targetBox(c).left >= 0
    /\ targetBox(c).bottom <= c.metrics.viewportHeight
    /\ targetBox(c).right <= c.metrics.viewportWidth

\* the delta manuallyScroll hands to scroll
manualDelta(c) ==
    [x |-> IF targetBox(c).left < 0 THEN targetBox(c).left
           ELSE IF targetBox(c).right > c.metrics.viewportWidth
                THEN targetBox(c).right - c.metrics.viewportWidth ELSE 0,
     y |-> IF targetBox(c).top < 0 THEN targetBox(c).top
           ELSE IF targetBox(c).bottom > c.metrics.viewportHeight
                THEN targetBox(c).bottom - c.metrics.viewportHeight ELSE 0]

\* a variant that always starts with the driver's primitive
directFirst_Always(c) == TRUE

\* the test that lets DOM.scrollIntoViewIfNeeded be tried
directFirst(c) == scrollSpeedOf(c) = MAX_SPEED /\ c.inViewportMargin <= 0

\* manuallyScroll() of the call c: this.scroll(delta, optionsResolved) is awaited
manuallyScroll(c) ==
    /\ viewCall' = [c EXCEPT !.ladder = Append(@, "scroll")]
    /\ CallScroll(manualDelta(c), c.scrollSpeed)

ViewportSize == 2    \* the viewport is ViewportSize x ViewportSize pixels
MaxDoc == 3          \* the document is up to MaxDoc x MaxDoc pixels

\* what page.evaluate can answer: a document at least as large as the
\* viewport, scrolled to any position
Metrics ==
    {m \in [viewportWidth : {ViewportSize}, viewportHeight : {ViewportSize},
            docHeight : ViewportSize..MaxDoc, docWidth : ViewportSize..MaxDoc,
            scrollPositionTop : 0..(MaxDoc - ViewportSize),
            scrollPositionLeft : 0..(MaxDoc - ViewportSize)] :
        /\ m.scrollPositionTop + m.viewportHeight <= m.docHeight
        /\ m.scrollPositionLeft + m.viewportWidth <= m.docWidth}

\* what getElementBox can answer then: any box of the document, relative to
\* the viewport
ElemBoxes(m) ==
    {b \in [top : (0 - MaxDoc)..MaxDoc, left : (0 - MaxDoc)..MaxDoc,
            bottom : (0 - MaxDoc)..MaxDoc, right : (0 - MaxDoc)..MaxDoc] :
        /\ 0 <= b.top + m.scrollPositionTop /\ b.top <= b.bottom
        /\ b.bottom + m.scrollPositionTop <= m.docHeight
        /\ 0 <= b.left + m.scrollPositionLeft /\ b.left <= b.right
        /\ b.right + m.scrollPositionLeft <= m.docWidth}

\* scrollIntoView(selector, {scrollSpeed, inViewportMargin}) up to its first
\* await, getElement
UserScrollIntoView(speeds, margins) ==
    /\ pc["user"] = "idle"
    /\ \E speed \in speeds, margin \in margins :
          viewCall' = [NoView EXCEPT !.scrollSpeed = speed, !.inViewportMargin = margin]
    /\ pc' = [pc EXCEPT !["user"] = "view_getElement"]
    /\ op' = "scrollIntoView"
    /\ outcome' = "none"
    /\ sent' = FALSE
    /\ UNCHANGED <<location, lastPoint, probe, moving, connected, replayVars, wasRandom,
                   moveVars, clickWasRandom, scrollCall>>

\* getElement resolved: page.evaluate is awaited
ViewGetElement ==
    /\ pc["user"] = "view_getElement"
    /\ pc' = [pc EXCEPT !["user"] = "view_metrics"]
    /\ UNCHANGED <<location, lastPoint, probe, moving, connected, replayVars, wasRandom,
                   callVars>>

\* the selector resolves to no element
ViewNotFound ==
    /\ pc["user"] = "view_getElement"
    /\ Reject("notfound")

\* page.evaluate resolved: getElementBox is awaited
ViewMetrics ==
    /\ pc["user"] = "view_metrics"
    /\ \E m \in Metrics : viewCall' = [viewCall EXCEPT !.metrics = m]
    /\ pc' = [pc EXCEPT !["user"] = "view_box"]
    /\ UNCHANGED <<location, lastPoint, probe, moving, connected, replayVars, wasRandom,
                   op, moveVars, clickWasRandom, scrollCall, outcome, sent>>

\* page.evaluate or getElementBox rejected, outside the try block
ViewDriverFails ==
    /\ pc["user"] \in {"view_metrics", "view_box"}
    /\ Reject("error")

\* getElementBox resolved: in view and done, or the first rung of the ladder
ViewBox ==
    /\ pc["user"] = "view_box"
    /\ \E box \in ElemBoxes(viewCall.metrics) :
          LET m == [viewCall EXCEPT !.elemBox = box, !.measured = TRUE]
              c == [m EXCEPT !.isInViewport = isInViewport(m)]
          IN  IF isInViewport(m)
              THEN /\ viewCall' = c
                   /\ pc' = [pc EXCEPT !["user"] = "idle"]
                   /\ Finish("resolved")
              ELSE IF directFirst(c)
              THEN /\ viewCall' = [c EXCEPT !.ladder = <<"direct">>]
                   /\ pc' = [pc EXCEPT !["user"] = "view_direct"]
                   /\ UNCHANGED <<wasRandom, op, moveVars, clickWasRandom, scrollCall,
                                  outcome, sent>>
              ELSE /\ manuallyScroll(c)
                   /\ UNCHANGED <<wasRandom, op, moveVars, clickWasRandom, outcome>>
    /\ UNCHANGED <<location, lastPoint, probe, moving, connected, replayVars>>

\* DOM.scrollIntoViewIfNeeded resolved: scrollIntoView returns
ViewDirectOk ==
    /\ pc["user"] = "view_direct"
    /\ connected
    /\ pc' = [pc EXCEPT !["user"] = "idle"]
    /\ Finish("resolved")
    /\ UNCHANGED <<location, lastPoint, probe, moving, connected, replayVars, viewCall>>

\* it rejected (or the handle has no objectId): the inner catch block
ViewDirectFails ==
    /\ pc["user"] = "view_direct"
    /\ manuallyScroll(viewCall)
    /\ UNCHANGED <<location, lastPoint, probe, moving, connected, replayVars, wasRandom,
                   op, moveVars, clickWasRandom, outcome>>

\* the element's own scrollIntoView settled: scrollIntoView returns or rejects
ViewJsDone ==
    /\ pc["user"] = "view_js"
    /\ pc' = [pc EXCEPT !["user"] = "idle"]
    /\ \/ connected /\ Finish("resolved")
       \/ Finish("error")
    /\ UNCHANGED <<location, lastPoint, probe, moving, connected, replayVars, viewCall>>

\* ------------------------------------------------------------------ randomMove
\* randomMove() up to its first await
WanderEnter ==
    pc' = [pc EXCEPT !["wander"] = IF ~moving THEN "w_point" ELSE "w_delay"]

\* getRandomPagePoint resolved: moveMouse(rand, options, true)
WanderPoint ==
    /\ pc["wander"] = "w_point"
    /\ \E rand \in Points : CallMoveMouse("wander", rand, NoSpread, "w_delay")
    /\ UNCHANGED <<location, lastPoint, probe, moving, connected, wasRandom, callVars>>

\* a variant whose failure also rejects the call of the caller
WanderStops_Rejects ==
    /\ pc["wander"] = "w_point"
    /\ pc' = [pc EXCEPT !["wander"] = "w_stopped", !["user"] = "idle"]
    /\ outcome' = "error"
    /\ UNCHANGED <<location, lastPoint, probe, moving, connected, replayVars, wasRandom, op,
                   moveVars, clickWasRandom, scrollCall, viewCall, sent>>

\* getRandomPagePoint rejected: the catch block logs and the task ends
WanderStops ==
    /\ pc["wander"] = "w_point"
    /\ pc' = [pc EXCEPT !["wander"] = "w_stopped"]
    /\ UNCHANGED <<location, lastPoint, probe, moving, connected, replayVars, wasRandom, callVars>>

\* the delay is over: randomMove(options) again
WanderAgain ==
    /\ pc["wander"] = "w_delay"
    /\ WanderEnter
    /\ UNCHANGED <<location, lastPoint, probe, moving, connected, replayVars, wasRandom, callVars>>

\* ------------------------------------------------------------------ environment
Disconnect ==
    /\ connected
    /\ connected' = FALSE
    /\ UNCHANGED <<location, lastPoint, probe, moving, pc, replayVars, wasRandom, callVars>>

\* ------------------------------------------------------------------ specification
InitLocals ==
    /\ connected = TRUE
    /\ lastPoint = location
    /\ spread = [t \in Tasks |-> NoSpread]
    /\ failed = [t \in Tasks |-> FALSE]
    /\ op = "none"
    /\ optionsResolved = NoOptions
    /\ iteration = 0
    /\ destination = NoPoint
    /\ newBoundingBox = NoBox
    /\ clickWasRandom = FALSE
    /\ scrollCall = NoScroll
    /\ outcome = "none"
    /\ viewCall = NoView
    /\ sent = FALSE
    /\ probe = NoProbe

\* createCursor(page, start, performRandomMoves)
InitCursor(randomMoves) ==
    /\ location \in Points
    /\ moving = FALSE
    /\ \E performRandomMoves \in randomMoves :
          pc = [t \in Tasks |-> CASE t = "user" -> "idle"
                                  [] t = "drop" -> "off"
                                  [] t = "wander" -> IF performRandomMoves
                                                     THEN "w_point" ELSE "off"]
    /\ kont = [t \in Tasks |-> "none"]
    /\ vectors = [t \in Tasks |-> <<>>]
    /\ wasRandom = [t \in Tasks |-> FALSE]
    /\ InitLocals

\* createPersonaCursor with topBarDrop > 0: the cursor is returned while
\* cursor.moveBy({ y: topBarDrop }) awaits its first dispatch
InitPersona ==
    /\ \E topBarX \in Coord, topBarDrop \in 1..MaxCoord :
          /\ location = [x |-> topBarX, y |-> 0]
          /\ vectors \in {[t \in Tasks |-> IF t = "drop" THEN vs ELSE <<>>] :
                            vs \in path(location, add(location, [x |-> 0, y |-> topBarDrop]))}
    /\ moving = TRUE
    /\ pc = [t \in Tasks |-> CASE t = "user" -> "idle"
                               [] t = "drop" -> "mm"
                               [] t = "wander" -> "off"]
    /\ kont = [t \in Tasks |-> IF t = "drop" THEN "moveTo_after" ELSE "none"]
    /\ wasRandom = [t \in Tasks |-> t = "drop"]
    /\ InitLocals

Init == InitCursor(BOOLEAN) \/ InitPersona

\* the options of the move and click calls of the session
SessionMoveOptions == MoveOptions({0, 1}, {1}, {NoPoint}, {NoSpread})
SessionDeltas == {[x |-> 0, y |-> 2], [x |-> 1, y |-> 0]}
SessionSpeeds == {1, MAX_SPEED}

Next ==
    \/ UserToggle
    \/ UserMoveTo
    \/ UserMoveBy
    \/ \E t \in Tasks : DispatchOk(t)
    \/ \E t \in Tasks : DispatchFails(t)
    \/ \E t \in Tasks : DispatchDisconnected(t)
    \/ \E t \in Tasks : MoveToAfter(t)
    \/ UserMoveToDone
    \/ DropMoveToDone
    \/ UserMove(SessionMoveOptions)
    \/ MoveGetElement
    \/ MoveNotFound
    \/ MoveScrolled
    \/ MoveDriverFails
    \/ MoveAim
    \/ MoveStep2
    \/ MoveRefetch
    \/ MoveCheck
    \/ MoveAfter
    \/ MoveDone
    \/ UserClick(SessionMoveOptions)
    \/ ClickHesitated
    \/ ClickDown
    \/ ClickWaited
    \/ ClickUp
    \/ ClickDone
    \/ UserButton
    \/ ButtonDone
    \/ UserScroll(SessionDeltas, SessionSpeeds)
    \/ WheelOk
    \/ WheelFails
    \/ ScrollDone
    \/ WanderPoint
    \/ WanderStops
    \/ WanderAgain
    \/ Disconnect

Spec == Init /\ [][Next]_vars

\* ------------------------------------------------------------------ move alone
\* A cursor without wandering, in a browser that stays connected, whose
\* caller only calls move, with every combination of the options that decide
\* the route and the retry budget.
MoveCallOptions ==
    MoveOptions(0..MaxTriesBound, {1, MaxCoord}, {NoPoint, origin, [x |-> 1, y |-> 1]},
                {NoSpread, 50})

InitMove == InitCursor({FALSE})

\* the steps of a running move call: each is the continuation of an awaited promise
MoveRuns ==
    \/ DispatchOk("user")
    \/ DispatchFails("user")
    \/ MoveGetElement
    \/ MoveNotFound
    \/ MoveScrolled
    \/ MoveDriverFails
    \/ MoveAim
    \/ MoveStep2
    \/ MoveRefetch
    \/ MoveCheck
    \/ MoveAfter
    \/ MoveDone

NextMove ==
    \/ UserToggle
    \/ UserMove(MoveCallOptions)
    \/ MoveRuns

SpecMove == InitMove /\ [][NextMove]_vars

\* The same cursor with calls that differ in their retry budget only, under
\* the scheduling of the event loop: every promise the call awaits settles,
\* and its continuation then runs.
RetryOptions == MoveOptions(0..MaxTriesBound, {1}, {NoPoint}, {NoSpread})

NextRetry ==
    \/ UserToggle
    \/ UserMove(RetryOptions)
    \/ MoveRuns

FairMove == InitMove /\ [][NextRetry]_vars /\ WF_vars(MoveRuns)

\* ------------------------------------------------------------------ wandering alone
\* A cursor whose caller only calls toggleRandomMove, created with or without
\* performRandomMoves.  The steps of the wandering task are continuations of
\* promises that settle (the page answers, the timer of delay fires): the
\* event loop runs each of them.
WanderRuns ==
    \/ WanderPoint
    \/ WanderStops
    \/ WanderAgain
    \/ DispatchOk("wander")
    \/ DispatchFails("wander")

NextWander ==
    \/ UserToggle
    \/ WanderRuns

FairWander == InitCursor(BOOLEAN) /\ [][NextWander]_vars /\ WF_vars(WanderRuns)

\* ------------------------------------------------------------------ scroll alone
MaxDelta == 3        \* the small deltas are -MaxDelta..MaxDelta on both axes

ScrollDeltas ==
    LET values == (0 - MaxDelta)..MaxDelta \cup {100, 0 - 250}
    IN  [x : values, y : values]
ScrollSpeeds == {0, 1, 2, 50, 89, EXP_SCALE_START, 95, MAX_SPEED, 101}

InitScroll == InitCursor({FALSE}) /\ location = origin

NextScroll ==
    \/ UserScroll(ScrollDeltas, ScrollSpeeds)
    \/ WheelOk
    \/ WheelFails
    \/ ScrollDone

SpecScroll == InitScroll /\ [][NextScroll]_vars

\* ------------------------------------------------------------------ scrollIntoView alone
ViewSpeeds == {1, 89, EXP_SCALE_START, MAX_SPEED, 101}
ViewMargins == {0 - 1, 0, 1}

NextView ==
    \/ UserScrollIntoView(ViewSpeeds, ViewMargins)
    \/ ViewGetElement
    \/ ViewNotFound
    \/ ViewMetrics
    \/ ViewDriverFails
    \/ ViewBox
    \/ ViewDirectOk
    \/ ViewDirectFails
    \/ WheelOk
    \/ WheelFails
    \/ ScrollDone
    \/ ViewJsDone

SpecView == InitScroll /\ [][NextView]_vars

\* ------------------------------------------------------------------ a persona cursor
MaxServed == 2       \* the actions a compiled bundle has served are counted up to MaxServed

\* what compileOptions may return as opts.move and opts.path for the persona:
\* spreadOverride is Math.round of a value of persona.spreadOverride (1..2 for
\* P1), moveDelay one of 0..40; the threshold is on the scale of the grid
PersonaSamples ==
    [maxTries : 1..MaxTriesBound, overshootThreshold : {1}, destination : {NoPoint},
     spreadOverride : {1, 2}, moveDelay : {0, 40}]

\* createPersonaCursor(page, personaId) for a persona without a drop:
\* compileOptions is called once, createCursor(page, start, false,
\* defaultOptions) gets its samples as the defaults of move and click.  probe
\* holds that bundle and the number of directed actions started with it.
InitPersonaCursor ==
    /\ \E topBarX \in Coord : location = [x |-> topBarX, y |-> 0]
    /\ moving = FALSE
    /\ pc = [t \in Tasks |-> IF t = "user" THEN "idle" ELSE "off"]
    /\ kont = [t \in Tasks |-> "none"]
    /\ vectors = [t \in Tasks |-> <<>>]
    /\ wasRandom = [t \in Tasks |-> FALSE]
    /\ connected = TRUE
    /\ lastPoint = location
    /\ spread = [t \in Tasks |-> NoSpread]
    /\ failed = [t \in Tasks |-> FALSE]
    /\ op = "none"
    /\ optionsResolved = NoOptions
    /\ iteration = 0
    /\ destination = NoPoint
    /\ newBoundingBox = NoBox
    /\ clickWasRandom = FALSE
    /\ scrollCall = NoScroll
    /\ outcome = "none"
    /\ viewCall = NoView
    /\ sent = FALSE
    /\ \E sample \in PersonaSamples :
          probe = [fn |-> "createPersonaCursor", defaultOptions |-> sample, served |-> 0]

\* the bundle of the cursor parameterizes one more action
Serve == probe' = [probe EXCEPT !.served = Min(@ + 1, MaxServed)]

\* cursor.move(selector) with no options: optionsResolved is the literal
\* defaults overwritten by defaultOptions.move
PersonaMove ==
    /\ pc["user"] = "idle"
    /\ wasRandom' = [wasRandom EXCEPT !["user"] = ~moving]
    /\ toggleRandomMove(FALSE)
    /\ optionsResolved' = probe.defaultOptions
    /\ iteration' = 0
    /\ pc' = [pc EXCEPT !["user"] = "move_getElement"]
    /\ op' = "move"
    /\ outcome' = "none"
    /\ sent' = FALSE
    /\ Serve
    /\ UNCHANGED <<location, lastPoint, connected, replayVars, destination, newBoundingBox,
                   clickWasRandom, scrollCall, viewCall>>

\* a variant whose move keeps the moveDelay of the click
PersonaClick_KeepsMoveDelay ==
    /\ pc["user"] = "idle"
    /\ clickWasRandom' = ~moving
    /\ toggleRandomMove(FALSE)
    /\ op' = "click"
    /\ \/ /\ optionsResolved' = probe.defaultOptions
          /\ pc' = [pc EXCEPT !["user"] = "move_getElement"]
       \/ /\ optionsResolved' = NoOptions
          /\ pc' = [pc EXCEPT !["user"] = "click_hesitate"]
    /\ wasRandom' = [wasRandom EXCEPT !["user"] = FALSE]
    /\ iteration' = 0
    /\ outcome' = "none"
    /\ sent' = FALSE
    /\ Serve
    /\ UNCHANGED <<location, lastPoint, connected, replayVars, destination, newBoundingBox,
                   scrollCall, viewCall>>

\* cursor.click(selector) and cursor.click() with no options: with a selector,
\* move(selector, {...optionsResolved, moveDelay: 0}) is awaited first
PersonaClick ==
    /\ pc["user"] = "idle"
    /\ clickWasRandom' = ~moving
    /\ toggleRandomMove(FALSE)
    /\ op' = "click"
    /\ \/ /\ optionsResolved' = [probe.defaultOptions EXCEPT !.moveDelay = 0]
          /\ pc' = [pc EXCEPT !["user"] = "move_getElement"]
       \/ /\ optionsResolved' = NoOptions
          /\ pc' = [pc EXCEPT !["user"] = "click_hesitate"]
    /\ wasRandom' = [wasRandom EXCEPT !["user"] = FALSE]
    /\ iteration' = 0
    /\ outcome' = "none"
    /\ sent' = FALSE
    /\ Serve
    /\ UNCHANGED <<location, lastPoint, connected, replayVars, destination, newBoundingBox,
                   scrollCall, viewCall>>

NextPersona ==
    \/ PersonaMove
    \/ PersonaClick
    \/ MoveRuns
    \/ ClickHesitated
    \/ ClickDown
    \/ ClickWaited
    \/ ClickUp
    \/ ClickDone

SpecPersona == InitPersonaCursor /\ [][NextPersona]_vars

\* ------------------------------------------------------------------ helpers alone
\* The synchronous helpers and factories of the module, each applied to
\* arguments of a small set: probe holds the arguments of the one call made
\* and what it returned.  The cursor is left alone.
cursorVars == <<location, moving, connected, pc, replayVars, wasRandom, callVars, lastPoint>>

\* PERSONAS[personaId].  The catalog is an object literal: the key of a persona
\* answers the persona, a key it inherits from Object.prototype answers a value
\* that is no persona, any other key answers undefined.
PersonaIds == {"default", "nope", "toString"}
PERSONAS(personaId) ==
    CASE personaId = "default" -> "persona"
      [] personaId = "toString" -> "inherited"
      [] OTHER -> "undefined"

\* compileOptions(persona, rng, D, W) after drawn samples: its first statement
\* hands persona.dwell to tri, which destructures it before it draws (a
\* TypeError for a value without dwell); a persona is compiled with ten draws
compileOptions(persona, drawn) ==
    IF persona = "persona"
    THEN [error |-> "none", samples |-> drawn + 10]
    ELSE [error |-> "TypeError", samples |-> drawn]

\* the two files that export a createPersonaCursor
Factories == {"createPersonaCursor.ts", "spoof.ts"}

\* createPersonaCursor(page, personaId): the error it throws, the random
\* samples drawn by then and whether createCursor was called.  Only
\* createPersonaCursor.ts tests the persona; it then draws Math.random() for
\* the seed before it compiles.
createPersonaCursor(factory, personaId) ==
    LET persona == PERSONAS(personaId)
        tested == factory = "createPersonaCursor.ts"
        opts == compileOptions(persona, IF tested THEN 1 ELSE 0)
    IN  IF tested /\ persona = "undefined"
        THEN [error |-> "Unknown persona", samples |-> 0, cursor |-> FALSE]
        ELSE [error |-> opts.error, samples |-> opts.samples,
              cursor |-> opts.error = "none"]

ProbeFactory ==
    /\ probe = NoProbe
    /\ \E factory \in Factories, personaId \in PersonaIds :
          probe' = [fn |-> "createPersonaCursor", factory |-> factory,
                    personaId |-> personaId,
                    result |-> createPersonaCursor(factory, personaId)]
    /\ UNCHANGED cursorVars

\* path(start, end) called with no option
ProbePath ==
    /\ probe = NoProbe
    /\ \E start \in RawPoints, end \in RawPoints :
          \E vs \in path(start, end) :
             probe' = [fn |-> "path", start |-> start, end |-> end, result |-> vs]
    /\ UNCHANGED cursorVars

\* ---- generateTimestamps
MaxTotal == 2        \* the speed integral of a segment is drawn from 0..MaxTotal

\* A speed is the fraction <<numerator, denominator>>.  options.moveSpeed is
\* a number or undefined (NoSpeed); the quotient by 0 is Infinity or NaN and
\* is left out of the numbers drawn.
NoSpeed == <<0, 0>>
MoveSpeeds == {NoSpeed, <<1, 1>>, <<2, 1>>, <<0 - 1, 1>>}

\* options?.moveSpeed ?? (Math.random() * 0.5 + 0.5): a value of [0.5, 1)
speedOf(moveSpeed) == IF moveSpeed = NoSpeed THEN {<<1, 2>>, <<3, 4>>} ELSE {moveSpeed}

\* Math.round(total / speed): Math.round(q) is floor(q + 1/2)
timeToMove(total, speed) ==
    LET n == total * speed[2]
        d == speed[1]
    IN  IF d > 0 THEN (2 * n + d) \div (2 * d)
        ELSE ((0 - d) - 2 * n) \div (2 * (0 - d))

\* The timestamps of generateTimestamps for a path whose segments have the
\* speed integrals totals, read at clock time now: the first is Date.now(),
\* each next one the one before plus the time of its segment.
RECURSIVE generateTimestamps(_, _, _)
generateTimestamps(totals, speed, now) ==
    IF totals = <<>> THEN <<now>>
    ELSE LET before == generateTimestamps(SubSeq(totals, 1, Len(totals) - 1), speed, now)
         IN  Append(before, before[Len(before)] + timeToMove(totals[Len(totals)], speed))

\* path(start, end, {useTimestamps: true, moveSpeed}) stamps its points
ProbeTimestamps ==
    /\ probe = NoProbe
    /\ \E moveSpeed \in MoveSpeeds, now \in 0..1, n \in 1..(MaxMid + 1) :
          \E totals \in [1..n -> 0..MaxTotal], speed \in speedOf(moveSpeed) :
             probe' = [fn |-> "generateTimestamps", moveSpeed |-> moveSpeed, now |-> now,
                       result |-> generateTimestamps(totals, speed, now)]
    /\ UNCHANGED cursorVars

\* ---- getRandomBoxPoint with paddingPercentage
RandomSteps == 4     \* Math.random() is drawn from {0, 1, ..} / RandomSteps

\* points are kept in units of 1 / PointScale, so that halves of hundredths
\* of a length times Math.random() are whole
PointScale == 200 * RandomSteps

NoPadding == 0 - 1   \* paddingPercentage: undefined
Paddings == {NoPadding, 0, 50, 100, 150}

\* a variant that puts the whole padding on the left and top sides
getRandomBoxPointAt_OneSided(box, paddingPercentage, u) ==
    LET pct == IF paddingPercentage > 0 /\ paddingPercentage <= 100
               THEN paddingPercentage ELSE 0
    IN  [x |-> PointScale * box.x + 2 * RandomSteps * box.width * pct
                 + 2 * u.x * box.width * (100 - pct),
         y |-> PointScale * box.y + 2 * RandomSteps * box.height * pct
                 + 2 * u.y * box.height * (100 - pct)]

\* getRandomBoxPoint(box, {paddingPercentage}) when the two Math.random()
\* calls answer u.x / RandomSteps and u.y / RandomSteps:
\* x + paddingWidth / 2 + Math.random() * (width - paddingWidth), where
\* paddingWidth is width * paddingPercentage / 100 for a percentage in
\* (0, 100] and 0 otherwise
getRandomBoxPointAt(box, paddingPercentage, u) ==
    LET pct == IF paddingPercentage > 0 /\ paddingPercentage <= 100
               THEN paddingPercentage ELSE 0
    IN  [x |-> PointScale * box.x + RandomSteps * box.width * pct
                 + 2 * u.x * box.width * (100 - pct),
         y |-> PointScale * box.y + RandomSteps * box.height * pct
                 + 2 * u.y * box.height * (100 - pct)]

\* the destination go picks for box: add(box, destination) for an explicit
\* destination, a random point of the box otherwise
destinationOf(box, offset, paddingPercentage, u) ==
    IF offset # NoPoint
    THEN [x |-> PointScale * add(box, offset).x, y |-> PointScale * add(box, offset).y]
    ELSE getRandomBoxPointAt(box, paddingPercentage, u)

ProbeDestination ==
    /\ probe = NoProbe
    /\ \E box \in Boxes, offset \in {NoPoint} \cup Points, paddingPercentage \in Paddings,
          u \in [x : 0..(RandomSteps - 1), y : 0..(RandomSteps - 1)] :
          probe' = [fn |-> "destination", box |-> box, offset |-> offset,
                    paddingPercentage |-> paddingPercentage, u |-> u,
                    result |-> destinationOf(box, offset, paddingPercentage, u)]
    /\ UNCHANGED cursorVars

\* ---- compileOptions: the delay after a move
\* the three texts of personas.ts, named by the place of their compileOptions
PersonasFiles == {"part_002:350", "part_002:703", "part_003:210"}

\* persona.clickMoveDelay: the one of persona P7 ({0, 0, 0}), the one of P1,
\* and two that are zero in part only
ClickMoveDelays ==
    {[min |-> 0, mode |-> 0, max |-> 0],
     [min |-> 0, mode |-> 0, max |-> 40],
     [min |-> 0, mode |-> 20, max |-> 40],
     [min |-> 520, mode |-> 620, max |-> 760]}

\* Math.round(uniform(rng, a, b)) when rng() answers u / RandomSteps
roundUniform(a, b, u) ==
    (2 * (a * RandomSteps + (b - a) * u) + RandomSteps) \div (2 * RandomSteps)

\* zeroClickMoveDelay; the text of part_003 has no such test
zeroClickMoveDelay(file, clickMoveDelay) ==
    /\ file # "part_003:210"
    /\ clickMoveDelay.min = 0
    /\ clickMoveDelay.mode = 0
    /\ clickMoveDelay.max = 0

\* the moveDelay and randomizeMoveDelay of compileOptions(persona, ..).move
compiledMove(file, clickMoveDelay, u) ==
    [moveDelay |-> IF zeroClickMoveDelay(file, clickMoveDelay)
                   THEN 0 ELSE roundUniform(0, 40, u),
     randomizeMoveDelay |-> ~zeroClickMoveDelay(file, clickMoveDelay)]

ProbeCompile ==
    /\ probe = NoProbe
    /\ \E file \in PersonasFiles, clickMoveDelay \in ClickMoveDelays,
          u \in 0..(RandomSteps - 1) :
          probe' = [fn |-> "compileOptions", file |-> file,
                    clickMoveDelay |-> clickMoveDelay,
                    result |-> compiledMove(file, clickMoveDelay, u)]
    /\ UNCHANGED cursorVars

\* ---- createPersonaCursor with a sessionId
SessionIds == {"a", "b"}

\* hashString(s) of a one-letter string: its char code (never 0)
hashString(sessionId) == IF sessionId = "a" THEN 97 ELSE 98

\* the n-th answer of mulberry32(seed), in units of 1 / RandomSteps: a
\* function of the seed and of the position in the stream (the mixing of the
\* bits is not followed)
mulberry32(seed, n) == (seed + 3 * n) % RandomSteps

\* maxTries and the start position createPersonaCursor gets for persona P1
\* (maxTries 9..11, topBarX_px 333..777) from the compileOptions of file,
\* given the seeded generator of sessionId and the answers of Math.random().
\* The text of part_002:350 draws its samples and topBarX from Math.random();
\* the other two draw from rng (maxTries is their 8th draw) and have no topBarX.
personaCursorOf(file, sessionId, random) ==
    IF file = "part_002:350"
    THEN [maxTries |-> roundUniform(9, 11, random[1]),
          start |-> [x |-> Max(0, (random[2] * (777 - 333 + 1)) \div RandomSteps + 333),
                     y |-> 0]]
    ELSE [maxTries |-> roundUniform(9, 11, mulberry32(hashString(sessionId), 8)),
          start |-> origin]

\* createPersonaCursor(page, "P1", sessionId) called twice
ProbeReproduce ==
    /\ probe = NoProbe
    /\ \E file \in PersonasFiles, sessionId \in SessionIds,
          first \in [1..2 -> 0..(RandomSteps - 1)],
          second \in [1..2 -> 0..(RandomSteps - 1)] :
          probe' = [fn |-> "createPersonaCursor twice", file |-> file,
                    sessionId |-> sessionId,
                    first |-> personaCursorOf(file, sessionId, first),
                    second |-> personaCursorOf(file, sessionId, second)]
    /\ UNCHANGED cursorVars

\* ---- click: the button of its two events
\* the button and clickCount of an options object; "undefined" and 0 stand
\* for a property that is not there
ButtonOptions == [button : {"undefined", "left", "right"}, clickCount : {0, 1, 2}]

\* { button: 'left', clickCount: 1, ...defaultOptions?.click, ...options }
mouseButtonAction(defaultClick, options) ==
    [button |-> IF options.button # "undefined" THEN options.button
                ELSE IF defaultClick.button # "undefined" THEN defaultClick.button
                ELSE "left",
     clickCount |-> IF options.clickCount # 0 THEN options.clickCount
                    ELSE IF defaultClick.clickCount # 0 THEN defaultClick.clickCount
                    ELSE 1]

\* the button and clickCount of the mousePressed and mouseReleased of
\* click(selector, options): click calls this.mouseDown() and this.mouseUp()
\* with no argument
clickEvents(defaultClick, options) ==
    LET none == [button |-> "undefined", clickCount |-> 0]
    IN  [mousePressed |-> mouseButtonAction(defaultClick, none),
         mouseReleased |-> mouseButtonAction(defaultClick, none)]

ProbeClick ==
    /\ probe = NoProbe
    /\ \E defaultClick \in ButtonOptions, options \in ButtonOptions :
          probe' = [fn |-> "click", defaultClick |-> defaultClick, options |-> options,
                    result |-> clickEvents(defaultClick, options)]
    /\ UNCHANGED cursorVars

\* ---- path: the number of points
MIN_STEPS == 25
DEFAULT_WIDTH == 100

\* the binary digits of Math.log2(xs / 1024) after the point, for
\* 1 <= xs / 1024 < 2, by repeated squaring; eight digits, in units of 1 / 256
RECURSIVE log2Digits(_, _, _)
log2Digits(xs, bit, acc) ==
    IF bit > 8 THEN acc
    ELSE LET sq == (xs * xs) \div 1024
         IN  IF sq >= 2048
             THEN log2Digits(sq \div 2, bit + 1, acc + 256 \div (2 ^ bit))
             ELSE log2Digits(sq, bit + 1, acc)

\* Math.log2(xs / 1024) for xs >= 1024, in units of 1 / 256
RECURSIVE log2(_)
log2(xs) == IF xs >= 2048 THEN 256 + log2(xs \div 2) ELSE log2Digits(xs, 1, 0)

\* fitts(distance, width) = 2 * Math.log2(distance / width + 1), in units of
\* 1 / 256, for a distance in tenths of a pixel
fitts(distance, width) == 2 * log2((1024 * (distance + 10 * width)) \div (10 * width))

\* steps of path(start, end) with no moveSpeed, for a curve of the given
\* length (pixels) and Math.random() = u / RandomSteps:
\* Math.ceil((Math.log2(fitts(length * 0.8, width) + 1) + speed * MIN_STEPS) * 3)
steps(curveLength, width, u) ==
    LET difficulty == log2((fitts(8 * curveLength, width) + 256) * 4)
        n == 3 * (difficulty * RandomSteps + u * MIN_STEPS * 256)
        d == 256 * RandomSteps
    IN  (n + d - 1) \div d

\* the number of points of curve.getLUT(steps): the two ends and the
\* steps - 1 points between; the library reads 0 steps as 100
lutLength(n) == IF n = 0 THEN 101 ELSE n + 1

\* the lengths of the curve: none, a pixel, the straight line from
\* {100, 100} to {600, 700} and a bent one, a long one
CurveLengths == {0, 1, 782, 1000, 2000}

\* path(start, end) with no option, for an end without a width
ProbeSteps ==
    /\ probe = NoProbe
    /\ \E curveLength \in CurveLengths, u \in 0..(RandomSteps - 1) :
          probe' = [fn |-> "path length", curveLength |-> curveLength, u |-> u,
                    steps |-> steps(curveLength, DEFAULT_WIDTH, u),
                    result |-> lutLength(steps(curveLength, DEFAULT_WIDTH, u))]
    /\ UNCHANGED cursorVars

NextHelpers ==
    \/ ProbeSteps
    \/ ProbeClick
    \/ ProbeCompile
    \/ ProbeReproduce
    \/ ProbeFactory
    \/ ProbePath
    \/ ProbeTimestamps
    \/ ProbeDestination

SpecHelpers == InitCursor({FALSE}) /\ [][NextHelpers]_vars

\* ------------------------------------------------------------------ properties
\* the pcs of one targeting attempt of move
AttemptPcs == {"move_getElement", "move_scroll", "move_box", "mm", "move_step2",
               "move_refetch", "move_check"}

InMove == op \in {"move", "click"} /\ pc["user"] \in AttemptPcs

\* C1: a move call always ends: unless a final check finds the cursor in the
\* re-fetched box (or the element is gone, or the driver fails), the call
\* rejects with 'Could not mouse-over element within enough tries' after
\* finitely many attempts, whatever maxTries >= 0 is.
C1_MoveTerminates ==
    (op = "move" /\ InMove) ~> \/ outcome = "unreachable"
                               \/ pc["user"] = "move_after"
                               \/ outcome \in {"notfound", "error"}

C1_Witness == outcome = "unreachable" /\ op = "none"

\* C2: the number of targeting attempts started, iteration + 1, never exceeds
\* the configured maxTries.
C2_AttemptsWithinMaxTries == InMove => iteration + 1 <= optionsResolved.maxTries

\* C3: move gets past its final check only with the cursor inside the freshly
\* fetched box under the half-open bounds (left and top edges excluded, right
\* and bottom edges included); a failed check calls go(iteration + 1): the
\* next attempt starts with the counter one higher, or the budget is spent
\* and the call rejects.  A call resolves only past that check.
C3_ArrivesOnlyInsideBox ==
    [][LET user == pc["user"]
           user2 == pc'["user"]
           box == newBoundingBox'
           inside == /\ box.x < location.x /\ location.x <= box.x + box.width
                     /\ box.y < location.y /\ location.y <= box.y + box.height
       IN  /\ (user2 = "move_after" /\ user # "move_after")
                 => (user = "move_check" /\ inside /\ location' = location)
           /\ (user = "move_check" /\ user2 = "move_getElement")
                 => (~inside /\ iteration' = iteration + 1
                       /\ iteration' <= optionsResolved.maxTries)
           /\ (user = "move_check" /\ user2 = "idle")
                 => (outcome' \in {"unreachable", "error"}
                       /\ (outcome' = "unreachable" => iteration + 1 > optionsResolved.maxTries))
           /\ (user = "move_check") => user2 \in {"move_check", "move_after",
                                                  "move_getElement", "idle"}
           /\ (user2 = "move_getElement" /\ user # "move_getElement")
                 => (user = "move_check" \/ (user = "idle" /\ iteration' = 0))
           /\ (user2 = "move_delay" /\ user # "move_delay") => user = "move_after"
           /\ (op = "move" /\ outcome' = "resolved") => user = "move_delay"
      ]_vars

C3_Witness == pc["user"] = "move_after" /\ iteration > 0

\* C4: when an attempt has its destination, with d the distance from the
\* cursor to it and T the overshootThreshold: if d > T the attempt replays
\* exactly two trajectories, the first to a point of the overshoot disc with
\* the caller's spread and the second to the destination with
\* OVERSHOOT_SPREAD; if d <= T (d = T - 1 and d = T included) it replays
\* exactly one, to the destination.
C4_OvershootOnlyAboveThreshold ==
    [][LET user == pc["user"]
           user2 == pc'["user"]
           T == optionsResolved.overshootThreshold
           d == [x |-> destination'.x - location.x, y |-> destination'.y - location.y]
           last == vectors'["user"][Len(vectors'["user"])]
       IN  /\ (user = "move_box" /\ user2 # "move_box" /\ op' # "none") =>
                 /\ user2 = "mm"
                 /\ spread'["user"] = optionsResolved.spreadOverride
                 /\ IF d.x * d.x + d.y * d.y > T * T
                    THEN /\ kont'["user"] = "move_step2"
                         /\ \E o \in overshoot(destination', OVERSHOOT_RADIUS) :
                               last = [x |-> Max(0, o.x), y |-> Max(0, o.y)]
                    ELSE /\ kont'["user"] = "move_refetch"
                         /\ last = destination'
           /\ (user = "move_step2" /\ user2 # "move_step2" /\ op' # "none") =>
                 /\ user2 = "mm"
                 /\ kont'["user"] = "move_refetch"
                 /\ spread'["user"] = OVERSHOOT_SPREAD
                 /\ last = destination
           /\ (user2 = "move_step2" /\ user # "move_step2")
                 => (user = "mm" /\ kont["user"] = "move_step2")
           /\ (user2 = "move_refetch" /\ user # "move_refetch")
                 => (user = "mm" /\ kont["user"] = "move_refetch")
           /\ (user = "mm" /\ user2 = "mm")
                 => (kont'["user"] = kont["user"] /\ spread'["user"] = spread["user"])
      ]_vars

\* the cursor is at the threshold distance from the destination, T = 1, and
\* the only trajectory of the attempt, the one to the destination, has started
C4_Witness ==
    /\ op = "move" /\ pc["user"] = "mm" /\ kont["user"] = "move_refetch"
    /\ optionsResolved.overshootThreshold = 1
    /\ spread["user"] = optionsResolved.spreadOverride
    /\ Len(vectors["user"]) = 2 /\ ~failed["user"]
    /\ magnitude2(direction(location, destination)) = 1

\* C5: when the loop of scroll is over, the wheel deltas sent sum to the
\* requested (x, y) (lengths in tenths).
C5_WheelDeltasSumToDelta ==
    pc["user"] = "scroll_delay" =>
        /\ scrollCall.sumX = scrollCall.x * Tenths
        /\ scrollCall.sumY = scrollCall.y * Tenths

\* C6: location is always the start position or the last point the browser
\* took; it changes only when the dispatch a replay awaits resolves, and then
\* to that very point; a replay goes through its points in order, one
\* awaited dispatch at a time.
C6_LocationFollowsDispatch ==
    /\ location = lastPoint
    /\ [][/\ location' = lastPoint'
          /\ location' # location =>
                \E t \in Tasks : /\ pc[t] = "mm"
                                  /\ connected
                                  /\ location' = Head(vectors[t])
                                  /\ pc'[t] = "mm" => vectors'[t] = Tail(vectors[t])
          /\ \A t \in Tasks :
                (pc[t] = "mm" /\ pc'[t] = "mm" /\ vectors'[t] # vectors[t])
                    => vectors'[t] = Tail(vectors[t])
         ]_vars

\* a replay half done: its second point awaited, the first one recorded
C6_Witness ==
    \E t \in Tasks : /\ pc[t] = "mm"
                      /\ Len(vectors[t]) = 1
                      /\ location # Head(vectors[t])
                      /\ ~failed[t]

\* a step in which the wandering task sends a dispatch: the first point of a
\* new trajectory or the next point of the current one
WanderSends ==
    /\ pc'["wander"] = "mm"
    /\ pc["wander"] # "mm" \/ vectors'["wander"] # vectors["wander"]

\* C7: while the moving flag is raised the wandering task sends nothing: the
\* dispatch in flight may settle, no further point follows and no new
\* trajectory starts.
C7_WanderYieldsToFlag == [][moving => ~WanderSends]_vars

\* a directed action raised the flag while a wandering dispatch is in flight
\* with points left
C7_Witness ==
    /\ moving /\ op # "none"
    /\ pc["wander"] = "mm" /\ Len(vectors["wander"]) > 1

\* the wandering task starts a trajectory
WanderStarts == pc["wander"] = "w_point" /\ pc'["wander"] = "mm"

FlagHeld ==
    \/ op = "click"
    \/ op = "move" /\ pc["user"] # "move_delay"
    \/ op \in {"moveTo", "moveBy"} /\ pc["user"] # "moveTo_delay"

C9_DropDoneBeforeCallerDispatch ==
    pc["user"] = "mm" => pc["drop"] \in {"off", "done"}

\* the dispatch a replay awaits settles
Settles(t) == pc[t] = "mm" /\ (pc'[t] # "mm" \/ vectors'[t] # vectors[t])

\* C10, as stated: after a failed dispatch no later point of the trajectory
\* is dispatched.
C10_FailureAbortsReplay == \A t \in Tasks : failed[t] => pc[t] # "mm"

\* C10, amended: with the browser connected a settled dispatch, failed or
\* not, is followed by the dispatch of the next point (unless the replay is
\* a wandering one and the flag is raised), and a failed one leaves location
\* alone; the replay is cut short only when the browser is gone.
C10_FailureSkipsPoint ==
    [][\A t \in Tasks :
         /\ (Settles(t) /\ connected /\ Len(vectors[t]) > 1 /\ ~(t = "wander" /\ moving))
               => (pc'[t] = "mm" /\ vectors'[t] = Tail(vectors[t]))
         /\ (Settles(t) /\ failed'[t] /\ ~failed[t]) => (connected /\ location' = location)
         /\ (Settles(t) /\ ~connected) => pc'[t] # "mm"
      ]_vars

\* a point is awaited after an earlier point of the same replay failed
C10_Witness == failed["user"] /\ pc["user"] = "mm" /\ connected

\* C11: a failed mouseMoved dispatch is not propagated: a replay of the
\* caller's flow ends only by returning to the code that awaits it, with the
\* call still running, and moveTo / moveBy never reject; a settled dispatch
\* the browser did not take leaves location alone, so location stays at the
\* last point dispatched with success.
C11_FailureNotPropagated ==
    [][/\ (pc["user"] = "mm")
             => (pc'["user"] \in {"mm", kont["user"]} /\ op' = op /\ outcome' = "none")
       /\ (op \in {"moveTo", "moveBy"} /\ op' = "none") => outcome' = "resolved"
       /\ \A t \in Tasks : (Settles(t) /\ lastPoint' = lastPoint) => location' = location
       /\ \A t \in Tasks : (pc[t] = "mm" /\ failed'[t] /\ ~failed[t]) => location' = lastPoint
      ]_vars

\* a dispatch of a moveTo failed, the call goes on and location is the last
\* point the browser took
C11_Witness ==
    /\ op = "moveTo" /\ pc["user"] = "mm" /\ failed["user"]
    /\ location = lastPoint /\ outcome = "none"
\* C12 as stated: a move or click whose selector resolves to no element
\* rejects without having sent any pointer or wheel event.
C12_NotFoundBeforeAnyEvent ==
    [][(outcome = "none" /\ outcome' = "notfound") => ~sent]_vars

\* C12 amended: the rejection for a missing element comes straight from the
\* awaited getElement, which sends nothing and leaves the location alone; at
\* the first attempt (go(0)) the call has sent no event at all, while at a
\* retry (go(i), i > 0) the events of the earlier attempts have been sent.
C12_NotFoundFailsAtLookup ==
    [][(outcome = "none" /\ outcome' = "notfound")
          => /\ pc["user"] = "move_getElement"
             /\ pc'["user"] = "idle"
             /\ op \in {"move", "click"}
             /\ location' = location
             /\ lastPoint' = lastPoint
             /\ (iteration = 0 => ~sent)
             /\ (iteration > 0 => sent)
      ]_vars

C12_Witness ==
    /\ outcome = "notfound"
    /\ pc["user"] = "idle"
    /\ op = "none"
    /\ location = lastPoint

\* C13: every exported createPersonaCursor called with an identifier that
\* names no persona of the catalog fails with the configuration error
\* ('Unknown persona'), before any random sample is drawn and before any
\* cursor is created.
C13_UnknownPersonaFailsFast ==
    (probe.fn = "createPersonaCursor" /\ PERSONAS(probe.personaId) # "persona")
        => /\ probe.result.error = "Unknown persona"
           /\ probe.result.samples = 0
           /\ ~probe.result.cursor

\* C14 as stated: for every start and end, coordinates at or below zero
\* included, path(start, end) starts with start itself and has no negative
\* coordinate.
C14_PathStartsAtStart ==
    probe.fn = "path"
        => /\ probe.result[1] = probe.start
           /\ \A i \in 1..Len(probe.result) : probe.result[i].x >= 0 /\ probe.result[i].y >= 0

\* C14 amended: no coordinate of path(start, end) is negative, and its first
\* point is start with every negative coordinate raised to 0: it is start
\* itself exactly when start has no negative coordinate.
C14_PathStartsAtClampedStart ==
    probe.fn = "path"
        => /\ probe.result[1] = [x |-> Max(0, probe.start.x), y |-> Max(0, probe.start.y)]
           /\ (probe.result[1] = probe.start) <=> (probe.start.x >= 0 /\ probe.start.y >= 0)
           /\ \A i \in 1..Len(probe.result) : probe.result[i].x >= 0 /\ probe.result[i].y >= 0

C14_Witness ==
    /\ probe.fn = "path"
    /\ probe.start.x < 0
    /\ probe.end.y < 0
    /\ probe.result[1].x = 0

\* C15: with useTimestamps = true and any moveSpeed, set or unset, the
\* timestamps of the returned sequence never decrease from index 0 on, and
\* the first one is the clock reading of the call.
C15_TimestampsNonDecreasing ==
    probe.fn = "generateTimestamps"
        => /\ probe.result[1] = probe.now
           /\ \A i \in 1..(Len(probe.result) - 1) : probe.result[i] <= probe.result[i + 1]

\* C16: with no explicit destination the point picked for a box lies in the
\* box and, for a paddingPercentage p of 0..100, in the rectangle inset on
\* every side by p / 2 percent of the width / height: the exact centre for
\* p = 100, any point of the box (by the random draws) for p = 0; a
\* percentage outside (0, 100] or none counts as 0.  With an explicit
\* destination the point is the box origin plus that offset, whatever
\* paddingPercentage is.
C16_DestinationRespectsPadding ==
    probe.fn = "destination"
        => LET box == probe.box
               pct == probe.paddingPercentage
               r == probe.result
               insetX == (PointScale \div 200) * box.width * pct
               insetY == (PointScale \div 200) * box.height * pct
           IN  IF probe.offset # NoPoint
               THEN /\ r.x = PointScale * (box.x + probe.offset.x)
                    /\ r.y = PointScale * (box.y + probe.offset.y)
               ELSE /\ PointScale * box.x <= r.x /\ r.x <= PointScale * (box.x + box.width)
                    /\ PointScale * box.y <= r.y /\ r.y <= PointScale * (box.y + box.height)
                    /\ pct \in 0..100
                          => /\ PointScale * box.x + insetX <= r.x
                             /\ r.x <= PointScale * (box.x + box.width) - insetX
                             /\ PointScale * box.y + insetY <= r.y
                             /\ r.y <= PointScale * (box.y + box.height) - insetY
                    /\ pct = 100
                          => /\ 2 * r.x = PointScale * (2 * box.x + box.width)
                             /\ 2 * r.y = PointScale * (2 * box.y + box.height)
                    /\ pct \notin 1..100
                          => /\ r.x = PointScale * box.x
                                         + (PointScale \div RandomSteps) * probe.u.x * box.width
                             /\ r.y = PointScale * box.y
                                         + (PointScale \div RandomSteps) * probe.u.y * box.height

\* the centre of a box with an extent, picked with paddingPercentage = 100
\* whatever the random draws
C16_Witness ==
    /\ probe.fn = "destination"
    /\ probe.offset = NoPoint
    /\ probe.paddingPercentage = 100
    /\ probe.box.width > 0
    /\ probe.u.x > 0
    /\ 2 * probe.result.x = PointScale * (2 * probe.box.x + probe.box.width)

\* the last scrollIntoView measured its element; the sides of the element's
\* own box with the margin added, relative to the viewport
ViewTop == viewCall.elemBox.top - viewCall.inViewportMargin
ViewLeft == viewCall.elemBox.left - viewCall.inViewportMargin
ViewBottom == viewCall.elemBox.bottom + viewCall.inViewportMargin
ViewRight == viewCall.elemBox.right + viewCall.inViewportMargin

\* on each side: the margin fits in the viewport, or the document ends inside
\* the viewport on that side (the margined box is cut there)
TopFits == ViewTop >= 0 \/ viewCall.metrics.scrollPositionTop = 0
LeftFits == ViewLeft >= 0 \/ viewCall.metrics.scrollPositionLeft = 0
BottomFits ==
    \/ ViewBottom <= viewCall.metrics.viewportHeight
    \/ viewCall.metrics.docHeight - viewCall.metrics.scrollPositionTop
          <= viewCall.metrics.viewportHeight
RightFits ==
    \/ ViewRight <= viewCall.metrics.viewportWidth
    \/ viewCall.metrics.docWidth - viewCall.metrics.scrollPositionLeft
          <= viewCall.metrics.viewportWidth
AlreadyInView == viewCall.measured /\ TopFits /\ LeftFits /\ BottomFits /\ RightFits

ElemInsideViewport ==
    /\ viewCall.elemBox.top >= 0 /\ viewCall.elemBox.left >= 0
    /\ viewCall.elemBox.bottom <= viewCall.metrics.viewportHeight
    /\ viewCall.elemBox.right <= viewCall.metrics.viewportWidth

TouchesDocEdge ==
    \/ viewCall.elemBox.top + viewCall.metrics.scrollPositionTop = 0
    \/ viewCall.elemBox.left + viewCall.metrics.scrollPositionLeft = 0
    \/ viewCall.elemBox.bottom + viewCall.metrics.scrollPositionTop = viewCall.metrics.docHeight
    \/ viewCall.elemBox.right + viewCall.metrics.scrollPositionLeft = viewCall.metrics.docWidth

\* C17: when the element, with the margin added and cut at the document's
\* edges, is already inside the viewport, scrollIntoView returns from the
\* measurement itself: no wheel event was or is sent, no scrolling means is
\* invoked, scroll is not entered and so no scroll delay is awaited.
C17_InViewDoesNothing ==
    [][(pc["user"] = "view_box" /\ AlreadyInView')
          => /\ pc'["user"] = "idle"
             /\ outcome' = "resolved"
             /\ viewCall'.ladder = <<>>
             /\ ~sent /\ ~sent'
             /\ scrollCall = NoScroll /\ scrollCall' = NoScroll
      ]_vars

C17_Witness ==
    /\ AlreadyInView
    /\ viewCall.inViewportMargin > 0
    /\ viewCall.elemBox.bottom > viewCall.elemBox.top
    /\ pc["user"] = "idle"
    /\ outcome = "resolved"
    /\ viewCall.ladder = <<>>

\* C18 as stated: whenever the target box is not inside the viewport the
\* ladder starts with the driver's direct primitive.
C18_DirectPrimitiveFirst ==
    (viewCall.measured /\ ~viewCall.isInViewport) => viewCall.ladder[1] = "direct"

\* the delta the ladder hands to scroll, from the margined box cut at the
\* document's edges: up / left by the overhang when that box starts before
\* the viewport, else down / right by the overhang when it ends after it
LadderDelta ==
    LET cut == [top |-> Max(ViewTop, 0 - viewCall.metrics.scrollPositionTop),
                left |-> Max(ViewLeft, 0 - viewCall.metrics.scrollPositionLeft),
                bottom |-> Min(ViewBottom, viewCall.metrics.docHeight
                                              - viewCall.metrics.scrollPositionTop),
                right |-> Min(ViewRight, viewCall.metrics.docWidth
                                            - viewCall.metrics.scrollPositionLeft)]
    IN  [x |-> IF cut.left < 0 THEN cut.left
               ELSE IF cut.right > viewCall.metrics.viewportWidth
                    THEN cut.right - viewCall.metrics.viewportWidth ELSE 0,
         y |-> IF cut.top < 0 THEN cut.top
               ELSE IF cut.bottom > viewCall.metrics.viewportHeight
                    THEN cut.bottom - viewCall.metrics.viewportHeight ELSE 0]

ScrollEntered ==
    /\ pc["user"] \in {"scroll_wheel", "scroll_delay"}
    /\ scrollCall.x = LadderDelta.x
    /\ scrollCall.y = LadderDelta.y
    /\ scrollCall.scrollSpeed = viewCall.scrollSpeed

\* C18 amended: when the target box is not inside the viewport, the ladder
\* starts with the driver's direct primitive only for a (clamped) scrollSpeed
\* of 100 and an inViewportMargin <= 0, and goes on to the computed delta and
\* scroll only if the primitive fails; for any other options it starts with
\* the computed delta and scroll.  Only if scroll rejects does it fall back
\* to the element's own scrollIntoView, smooth for a scrollSpeed below 90 and
\* with the default behaviour otherwise.
C18_LadderInOrder ==
    [][LET user == pc["user"]
           direct == /\ clamp(viewCall'.scrollSpeed, MIN_SPEED, MAX_SPEED) = MAX_SPEED
                     /\ viewCall'.inViewportMargin <= 0
           js == IF clamp(viewCall.scrollSpeed, MIN_SPEED, MAX_SPEED) < EXP_SCALE_START
                 THEN "js_smooth" ELSE "js_instant"
       IN  /\ (user = "view_box" /\ viewCall'.measured /\ ~AlreadyInView')
                 => IF direct
                    THEN viewCall'.ladder = <<"direct">> /\ pc'["user"] = "view_direct"
                                                         /\ ~sent'
                    ELSE viewCall'.ladder = <<"scroll">> /\ ScrollEntered'
           /\ (user = "view_direct" /\ pc'["user"] # "view_direct")
                 => \/ pc'["user"] = "idle" /\ outcome' = "resolved"
                    \/ viewCall'.ladder = <<"direct", "scroll">> /\ ScrollEntered'
           /\ (user = "scroll_wheel" /\ viewCall'.ladder # viewCall.ladder)
                 => /\ viewCall'.ladder = Append(viewCall.ladder, js)
                    /\ pc'["user"] = "view_js"
           /\ (viewCall'.ladder # viewCall.ladder /\ viewCall'.ladder # <<>>)
                 => user \in {"view_box", "view_direct", "scroll_wheel"}
           /\ (user = "view_js") => (pc'["user"] = "idle" /\ viewCall'.ladder = viewCall.ladder)
      ]_vars

\* every rung was tried: the primitive failed, scroll rejected, the element's
\* own scrollIntoView is awaited
C18_Witness ==
    /\ viewCall.ladder = <<"direct", "scroll", "js_instant">>
    /\ pc["user"] = "view_js"
    /\ viewCall.scrollSpeed = 101

C20_FullSpeedIsOneWheelEvent ==
    (op = "scroll" /\ scrollCall.scrollSpeed >= MAX_SPEED
        /\ (scrollCall.x # 0 \/ scrollCall.y # 0))
        => /\ pc["user"] \in {"scroll_wheel", "scroll_delay"}
           /\ pc["user"] = "scroll_wheel"
                 => /\ scrollCall.i = 0
                    /\ scrollCall.sumX = 0 /\ scrollCall.sumY = 0
           /\ pc["user"] = "scroll_delay"
                 => /\ scrollCall.i = 1
                    /\ scrollCall.sumX = scrollCall.x * Tenths
                    /\ scrollCall.sumY = scrollCall.y * Tenths

C20_Witness ==
    /\ op = "scroll"
    /\ pc["user"] = "scroll_delay"
    /\ scrollCall.scrollSpeed > MAX_SPEED
    /\ scrollCall.x < 0 - MaxDelta
    /\ scrollCall.y = 1
    /\ scrollCall.i = 1
    /\ scrollCall.sumX = scrollCall.x * Tenths
    /\ scrollCall.sumY = Tenths

\* C21: compileOptions on a persona whose clickMoveDelay is exactly
\* {min: 0, mode: 0, max: 0} returns move.moveDelay 0 and
\* move.randomizeMoveDelay false; on every other persona it returns
\* randomizeMoveDelay true and a move.moveDelay of 0..40.
C21_ZeroDelayPersona ==
    probe.fn = "compileOptions"
        => IF probe.clickMoveDelay = [min |-> 0, mode |-> 0, max |-> 0]
           THEN probe.result.moveDelay = 0 /\ ~probe.result.randomizeMoveDelay
           ELSE probe.result.randomizeMoveDelay /\ probe.result.moveDelay \in 0..40


\* C22: a compiled bundle parameterizes one action only: no bundle of
\* compileOptions serves two directed actions of a persona cursor, each
\* action's padding, threshold, retry budget, dwell and delays being drawn
\* anew when the action is called.
C22_BundleServesOneAction ==
    probe.fn = "createPersonaCursor" => probe.served <= 1


\* C23: two createPersonaCursor calls with the same personaId, the same
\* explicit sessionId and the same D and W yield identical compiled option
\* values and the same start position.
C23_SameSessionSameCursor ==
    probe.fn = "createPersonaCursor twice" => probe.first = probe.second


\* the steps of click after its move
ClickPcs == {"click_hesitate", "click_down", "click_wait", "click_up", "click_delay"}

\* C24: click runs its steps in order: the move, whose own delay is 0, the
\* hesitate pause, mousePressed, the waitForClick pause, mouseReleased, the
\* moveDelay pause once, and then it returns.  mousePressed is sent when no
\* mouseMoved of the move is left, no mouseMoved follows it, and
\* mouseReleased is sent only after mousePressed settled.
C24_ClickStepsInOrder ==
    [][LET p == pc["user"]
           q == pc'["user"]
       IN  /\ (op' = "click" /\ p # q)
                => /\ q = "click_hesitate"
                         => \/ p = "idle"
                            \/ p = "move_delay" /\ optionsResolved.moveDelay = 0
                   /\ q = "click_down" => p = "click_hesitate" /\ vectors["user"] = <<>>
                   /\ q = "click_wait" => p = "click_down"
                   /\ q = "click_up" => p = "click_wait"
                   /\ q = "click_delay" => p \in {"click_down", "click_up"}
                   /\ p \in ClickPcs => q \in ClickPcs
           /\ (op = "click" /\ op' # "click")
                => /\ q = "idle"
                   /\ p \in ClickPcs => p = "click_delay"
                   /\ outcome' = "resolved" <=> p = "click_delay"
      ]_vars

\* mouseReleased is in flight in a click whose cursor has a moveDelay
C24_Witness ==
    /\ op = "click"
    /\ pc["user"] = "click_up"
    /\ probe.fn = "createPersonaCursor"
    /\ probe.defaultOptions.moveDelay > 0


\* C25: the mousePressed and the mouseReleased of a click call carry the
\* button and the clickCount of that call's options; where the call gives
\* none, they carry the default (the cursor's, or 'left' and 1).
C25_ClickCarriesItsButton ==
    probe.fn = "click"
        => LET expected == mouseButtonAction(probe.defaultClick, probe.options)
           IN  /\ probe.result.mousePressed = expected
               /\ probe.result.mouseReleased = expected


\* C26: on any cursor, once toggleRandomMove(true) has lowered the flag and
\* no directed action is running, the cursor comes to dispatch a wandering
\* move (unless the flag is raised again first); and while the flag is
\* raised by toggleRandomMove(false) no wandering trajectory is started.
C26_ToggleSwitchesWandering ==
    /\ (~moving /\ pc["user"] = "idle") ~> (moving \/ pc["wander"] = "mm")
    /\ [][moving => ~(pc["wander"] # "mm" /\ pc'["wander"] = "mm")]_vars


\* a step of the wandering task
WanderStep ==
    \/ pc'["wander"] # pc["wander"]
    \/ vectors'["wander"] # vectors["wander"]
    \/ failed'["wander"] # failed["wander"]

\* the call of the caller is where it was
UserFlowUntouched ==
    /\ pc'["user"] = pc["user"]
    /\ vectors'["user"] = vectors["user"]
    /\ failed'["user"] = failed["user"]
    /\ callVars' = callVars

\* C27 as stated: no step of the wandering task, a failing one included,
\* touches the call of a caller, and after a failure inside the task (of
\* getRandomPagePoint or of a dispatch) the task has stopped for good.
C27_FailureStopsTheTask ==
    [][/\ WanderStep => UserFlowUntouched
       /\ (~failed["wander"] /\ failed'["wander"]) => pc'["wander"] = "w_stopped"
       /\ pc["wander"] = "w_stopped" => pc'["wander"] = "w_stopped"
      ]_vars

\* C27 amended: no step of the wandering task touches the call of a caller;
\* a task that stopped stays stopped; a failed dispatch does not stop it:
\* the replay goes on with the next point.
C27_FailureIsSwallowed ==
    [][/\ WanderStep => UserFlowUntouched
       /\ (~failed["wander"] /\ failed'["wander"]) => pc'["wander"] = "mm"
       /\ pc["wander"] = "w_stopped" => pc'["wander"] = "w_stopped"
      ]_vars

\* the task has stopped while a moveTo of the caller is replaying
C27_Witness ==
    /\ pc["wander"] = "w_stopped"
    /\ op = "moveTo"
    /\ pc["user"] = "mm"


\* C28: in the overshoot sub-path the move to the overshoot point is replayed
\* with the spreadOverride that reached move, and the corrective move to the
\* destination with a narrower spread than that one.
C28_CorrectionIsNarrower ==
    [][/\ (pc["user"] = "move_box" /\ kont'["user"] = "move_step2")
             => spread'["user"] = optionsResolved.spreadOverride
       /\ (pc["user"] = "move_step2" /\ pc'["user"] = "mm")
             => spread'["user"] < optionsResolved.spreadOverride
      ]_vars


\* C29: with no moveSpeed, path returns at least MIN_STEPS points, whatever
\* the length of the curve and whatever Math.random() answers.
C29_AtLeastMinSteps ==
    probe.fn = "path length" => probe.result >= MIN_STEPS


\* C30: every attempt of move, the first and each retry, runs its steps in
\* order: getElement, scrollIntoView, getElementBox, the replay of one or two
\* trajectories, getElementBox again and the containment test; a retry is
\* go(iteration + 1) and starts again at getElement.  A mouseMoved is sent
\* only once the scrollIntoView and the getElementBox of the attempt returned.
C30_AttemptStepsInOrder ==
    [][LET p == pc["user"]
           q == pc'["user"]
       IN  /\ (op # "move" /\ op' = "move") => (q = "move_getElement" /\ iteration' = 0)
           /\ (op = "move" /\ op' = "move" /\ p # q)
                => /\ q = "move_getElement" => (p = "move_check" /\ iteration' = iteration + 1)
                   /\ q = "move_scroll" => p = "move_getElement"
                   /\ q = "move_box" => p = "move_scroll"
                   /\ q = "mm" => p \in {"move_box", "move_step2"}
                   /\ q = "move_step2" => (p = "mm" /\ kont["user"] = "move_step2")
                   /\ q = "move_refetch" => (p = "mm" /\ kont["user"] = "move_refetch")
                   /\ q = "move_check" => p = "move_refetch"
                   /\ q = "move_after" => p = "move_check"
                   /\ q # "move_getElement" => iteration' = iteration
      ]_vars

\* the containment test of the first retry is awaited
C30_Witness ==
    /\ op = "move"
    /\ iteration = 1
    /\ pc["user"] = "move_check"
    /\ sent


\* ------------------------------------------------------------------ moveTo and moveBy alone
\* A cursor created with or without performRandomMoves whose caller awaits
\* moveTo and moveBy calls, one after the other, in a browser that stays
\* connected.  probe keeps the arguments of the call and whether one of its
\* dispatches was rejected.
\* the delta of a moveBy call: a Partial<Vector>, either component may be missing
PartialDeltas == UNION {[d -> -1..1] : d \in SUBSET {"x", "y"}}

\* { x: 0, y: 0, ...delta }
spreadDelta(delta) ==
    [x |-> IF "x" \in DOMAIN delta THEN delta["x"] ELSE 0,
     y |-> IF "y" \in DOMAIN delta THEN delta["y"] ELSE 0]

\* moveTo(destination) up to its first await
MoveToCall ==
    /\ pc["user"] = "idle"
    /\ \E dest \in RawPoints :
          /\ CallMoveMouse("user", dest, NoSpread, "moveTo_after")
          /\ probe' = [fn |-> "moveTo", destination |-> dest, failed |-> FALSE]
    /\ wasRandom' = [wasRandom EXCEPT !["user"] = ~moving]
    /\ toggleRandomMove(FALSE)
    /\ op' = "moveTo"
    /\ outcome' = "none"
    /\ sent' = (pc'["user"] = "mm")
    /\ UNCHANGED <<location, lastPoint, connected, moveVars, clickWasRandom, scrollCall,
                   viewCall>>

\* moveBy(delta): moveTo(add(location, { x: 0, y: 0, ...delta })) up to its first await
MoveByCall ==
    /\ pc["user"] = "idle"
    /\ \E delta \in {d \in PartialDeltas : InGrid(add(location, spreadDelta(d)))} :
          /\ CallMoveMouse("user", add(location, spreadDelta(delta)), NoSpread,
                           "moveTo_after")
          /\ probe' = [fn |-> "moveBy", from |-> location, delta |-> delta,
                       failed |-> FALSE]
    /\ wasRandom' = [wasRandom EXCEPT !["user"] = ~moving]
    /\ toggleRandomMove(FALSE)
    /\ op' = "moveBy"
    /\ outcome' = "none"
    /\ sent' = (pc'["user"] = "mm")
    /\ UNCHANGED <<location, lastPoint, connected, moveVars, clickWasRandom, scrollCall,
                   viewCall>>

\* a send of the caller's replay rejected: log, next point
MoveToDispatchFails ==
    /\ pc["user"] = "mm"
    /\ connected
    /\ LoopNext("user", TRUE)
    /\ probe' = [probe EXCEPT !.failed = TRUE]
    /\ UNCHANGED <<location, lastPoint, moving, connected, wasRandom, callVars>>

NextMoveTo ==
    \/ UserToggle
    \/ MoveToCall
    \/ MoveByCall
    \/ DispatchOk("user")
    \/ MoveToDispatchFails
    \/ MoveToAfter("user")
    \/ UserMoveToDone
    \/ WanderRuns

SpecMoveTo == InitCursor(BOOLEAN) /\ [][NextMoveTo]_vars

\* ------------------------------------------------------------------ directed actions and wandering
\* A cursor created with or without performRandomMoves whose caller awaits
\* move, moveTo, moveBy and click calls, one after the other, on a page that
\* answers getRandomPagePoint.  The timer of the wandering task's delay fires
\* and the page answers: the event loop runs these two continuations.
WanderResumes ==
    \/ WanderAgain
    \/ WanderPoint

NextDirected ==
    \/ UserToggle
    \/ UserMoveTo
    \/ UserMoveBy
    \/ MoveToAfter("user")
    \/ UserMoveToDone
    \/ UserMove(SessionMoveOptions)
    \/ MoveRuns
    \/ UserClick(SessionMoveOptions)
    \/ ClickHesitated
    \/ ClickDown
    \/ ClickWaited
    \/ ClickUp
    \/ ClickDone
    \/ WanderResumes
    \/ DispatchOk("wander")
    \/ DispatchFails("wander")

FairDirected == InitCursor(BOOLEAN) /\ [][NextDirected]_vars /\ WF_vars(WanderResumes)

\* ------------------------------------------------------------------ scrolling and wandering
\* A cursor created with or without performRandomMoves whose caller awaits
\* scroll, scrollTo and scrollIntoView calls, one after the other, while the
\* wandering task moves the cursor.  The session is any number of scroll and
\* scrollTo calls and then one scrollIntoView call (whose record stays).
ScrollToDestinations ==
    {[kind |-> e] : e \in {"top", "bottom", "left", "right"}}
       \cup {[kind |-> "vector", vector |-> v] :
                v \in UNION {[d -> 0..1] : d \in SUBSET {"x", "y"}}}

NextWheel ==
    \/ UserToggle
    \/ viewCall = NoView /\ UserScroll(SessionDeltas, SessionSpeeds)
    \/ viewCall = NoView /\ UserScrollTo
    \/ ScrollToMeasured(ScrollToDestinations, Metrics, SessionSpeeds)
    \/ ScrollToFails
    \/ viewCall = NoView /\ UserScrollIntoView(SessionSpeeds, {0})
    \/ ViewGetElement
    \/ ViewNotFound
    \/ ViewMetrics
    \/ ViewDriverFails
    \/ ViewBox
    \/ ViewDirectOk
    \/ ViewDirectFails
    \/ ViewJsDone
    \/ WheelOk
    \/ WheelFails
    \/ ScrollDone
    \/ WanderRuns

SpecWheel == InitCursor(BOOLEAN) /\ [][NextWheel]_vars

\* C31: for an effective scrollSpeed s below 90 (the option cut to 1..100)
\* and a dominant distance L >= s, with M the distance on the other axis and
\* n = floor(L / s): scroll sends exactly n wheel events; each carries s on
\* the dominant axis and floor(M / n) on the other, the last one L % s and
\* M % n more; each has the sign of the requested delta; and the scrollDelay
\* pause follows the last event, once.
C31_SlowScrollSteps ==
    [][LET c == scrollCall
           s == Max(1, Min(100, c.scrollSpeed))
           ax == Abs(c.x)
           ay == Abs(c.y)
           xDominant == ax > ay
           L == IF xDominant THEN ax ELSE ay
           M == IF xDominant THEN ay ELSE ax
           n == L \div s
           last == c.i = n - 1
           long == (s + (IF last THEN L % s ELSE 0)) * Tenths
           short == ((M \div n) + (IF last THEN M % n ELSE 0)) * Tenths
           sx == IF c.x < 0 THEN 0 - 1 ELSE 1
           sy == IF c.y < 0 THEN 0 - 1 ELSE 1
           ev == [x |-> scrollCall'.sumX - c.sumX, y |-> scrollCall'.sumY - c.sumY]
       IN  (op = "scroll" /\ s < 90 /\ L >= s)
             => /\ (pc["user"] = "scroll_wheel" /\ op' = "scroll")
                     => /\ c.i < n
                        /\ scrollCall'.i = c.i + 1
                        /\ pc'["user"] = IF last THEN "scroll_delay" ELSE "scroll_wheel"
                        /\ ev.x = sx * (IF xDominant THEN long ELSE short)
                        /\ ev.y = sy * (IF xDominant THEN short ELSE long)
                /\ pc["user"] = "scroll_delay"
                     => /\ c.i = n
                        /\ pc'["user"] = "idle"
                        /\ outcome' = "resolved"
      ]_vars

\* a scroll by (-250, 3) at speed 89 has sent its two events and awaits the delay
C31_Witness ==
    /\ op = "scroll"
    /\ pc["user"] = "scroll_delay"
    /\ scrollCall.scrollSpeed = 89
    /\ scrollCall.x = 0 - 250
    /\ scrollCall.y = 3
    /\ scrollCall.i = 2
    /\ scrollCall.sumX = (0 - 250) * Tenths
    /\ scrollCall.sumY = 3 * Tenths


\* where a finished moveTo or moveBy call was to arrive: the destination, or
\* the location at the call plus the delta with a missing component read as
\* 0, each negative coordinate raised to 0
ArrivalOf(call) ==
    LET to == IF call.fn = "moveTo"
              THEN call.destination
              ELSE [x |-> call.from.x + (IF "x" \in DOMAIN call.delta
                                         THEN call.delta["x"] ELSE 0),
                    y |-> call.from.y + (IF "y" \in DOMAIN call.delta
                                         THEN call.delta["y"] ELSE 0)]
    IN  [x |-> IF to.x < 0 THEN 0 ELSE to.x, y |-> IF to.y < 0 THEN 0 ELSE to.y]

\* a moveTo or moveBy call has returned, none of its dispatches was rejected,
\* and the caller has not called again
MovedToCleanly ==
    /\ probe.fn \in {"moveTo", "moveBy"}
    /\ op = "none"
    /\ outcome = "resolved"
    /\ ~probe.failed

\* the step at which the moveTo or moveBy call returns to its caller
MoveToReturns == pc["user"] = "moveTo_delay" /\ pc'["user"] = "idle"

\* C32 as stated: when a moveTo or moveBy call without a rejected dispatch
\* returns, the location is the destination (the previous location plus the
\* delta) with each negative coordinate raised to 0.
C32_ArrivesAtDestination ==
    [][(MoveToReturns /\ ~probe.failed) => location' = ArrivalOf(probe)]_vars

\* C32, amended: the same on a cursor whose wandering task is not running,
\* and there the location stays until the caller's next call.
C32_ArrivesWithoutWandering ==
    /\ [][(MoveToReturns /\ ~probe.failed /\ pc["wander"] = "off")
            => location' = ArrivalOf(probe)]_vars
    /\ []((MovedToCleanly /\ pc["wander"] = "off") => location = ArrivalOf(probe))

\* a moveBy({ y: -1 }) from (1, 0) has returned on a cursor without wandering
C32_Witness ==
    /\ MovedToCleanly
    /\ pc["wander"] = "off"
    /\ probe.fn = "moveBy"
    /\ probe.from = [x |-> 1, y |-> 0]
    /\ DOMAIN probe.delta = {"y"}
    /\ probe.delta["y"] = 0 - 1
    /\ location = [x |-> 1, y |-> 0]


\* the step at which the caller's move or click call rejects: the selector
\* was not found, or the retry budget is used up
MoveRejects ==
    op \in {"move", "click"} /\ op' = "none" /\ outcome' \in {"notfound", "unreachable"}

\* C33: when a move or click call rejects, the moving flag is back at the
\* value it had before the call (wasRandom is the negation of that value).
C33_RejectionRestoresFlag ==
    [][MoveRejects
         => moving' = (IF op = "click" THEN ~clickWasRandom ELSE ~wasRandom["user"])]_vars


\* the step at which the caller's move, moveTo, moveBy or click call resolves
DirectedResolves ==
    op \in {"move", "moveTo", "moveBy", "click"} /\ op' = "none" /\ outcome' = "resolved"

\* the value of the flag when the running call began (wasRandom = !moving)
FlagBefore == IF op = "click" THEN ~clickWasRandom ELSE ~wasRandom["user"]

\* a wandering task exists and the last call of the caller has resolved with
\* the flag lowered
WanderingMayResume ==
    /\ pc["wander"] \notin {"off", "w_stopped"}
    /\ op = "none"
    /\ outcome = "resolved"
    /\ ~moving

C35_FlagHeldThroughOverlap == (FlagHeld /\ pc["drop"] # "off") => moving


\* destination is one that go can pick for box: box plus the explicit offset,
\* which lies within [0, width] x [0, height], or a random point of the box
SelectableFor(box, dest, o) ==
    IF o.destination # NoPoint
    THEN /\ dest = add(box, o.destination)
         /\ o.destination.x \in 0..box.width
         /\ o.destination.y \in 0..box.height
    ELSE dest \in getRandomBoxPoint(box)

\* C36: the first attempt of a move has arrived at its destination (no
\* dispatch failed) and the box fetched again is one of positive width and
\* height for which that destination can be picked, as for an element that
\* stands still: the attempt succeeds, go is not called again.
C36_StaticElementFirstTry ==
    [][(/\ op = "move"
        /\ pc["user"] = "move_check"
        /\ iteration = 0
        /\ location = destination
        /\ op' = "move"
        /\ newBoundingBox'.width > 0
        /\ newBoundingBox'.height > 0
        /\ SelectableFor(newBoundingBox', destination, optionsResolved))
          => pc'["user"] = "move_after"]_vars


\* the target box of the call c after the page has scrolled by (dx, dy) tenths
\* of a pixel lies in the viewport (sides in tenths)
InViewAfter(c, dx, dy) ==
    /\ targetBox(c).top * Tenths - dy >= 0
    /\ targetBox(c).left * Tenths - dx >= 0
    /\ targetBox(c).bottom * Tenths - dy <= c.metrics.viewportHeight * Tenths
    /\ targetBox(c).right * Tenths - dx <= c.metrics.viewportWidth * Tenths

\* C37: when scrollIntoView returns without error after its wheel events,
\* for a scrollSpeed in 1..100 and a target box no larger than the viewport,
\* the target box moved by the sum of the wheel deltas lies in the viewport.
C37_ScrolledIntoView ==
    [][(/\ op = "scrollIntoView"
        /\ pc["user"] = "scroll_delay"
        /\ outcome' = "resolved"
        /\ viewCall.scrollSpeed \in 1..100
        /\ targetBox(viewCall).bottom - targetBox(viewCall).top
              <= viewCall.metrics.viewportHeight
        /\ targetBox(viewCall).right - targetBox(viewCall).left
              <= viewCall.metrics.viewportWidth)
          => InViewAfter(viewCall, scrollCall.sumX, scrollCall.sumY)]_vars


\* a step of a scroll, scrollTo or scrollIntoView call of the caller
ScrollStep ==
    /\ op \in {"scroll", "scrollTo", "scrollIntoView"}
          \/ op' \in {"scroll", "scrollTo", "scrollIntoView"}
    /\ pc'["user"] # pc["user"] \/ scrollCall' # scrollCall \/ viewCall' # viewCall

\* a step that sends a mouseWheel event, and a step during which the event
\* sent before stays awaited
WheelSent ==
    /\ pc'["user"] = "scroll_wheel"
    /\ pc["user"] # "scroll_wheel" \/ scrollCall'.i # scrollCall.i

WheelAwaited ==
    /\ pc["user"] = "scroll_wheel"
    /\ pc'["user"] = "scroll_wheel"
    /\ scrollCall'.i = scrollCall.i

\* C38: no step of scroll, scrollTo or scrollIntoView changes the location or
\* the moving flag; each mouseWheel event carries the location of the moment
\* it is sent, and keeps it while it is awaited.
C38_ScrollLeavesCursorAlone ==
    [][/\ ScrollStep => (location' = location /\ moving' = moving)
       /\ WheelSent => scrollCall'.at = location
       /\ WheelAwaited => scrollCall'.at = scrollCall.at
      ]_vars

\* the second wheel event of a scrollTo call is awaited; it carries the
\* place the wandering task has taken the cursor to since the call began, and
\* the cursor has moved on since
C38_Witness ==
    /\ op = "scrollTo"
    /\ pc["user"] = "scroll_wheel"
    /\ scrollCall.i = 1
    /\ scrollCall.at = [x |-> 1, y |-> 1]
    /\ location = [x |-> 0, y |-> 1]
    /\ ~moving


\* C39: from the start of a click call that overlaps no other directed
\* action up to its return the moving flag is raised; in particular the
\* restore at the end of the nested move writes the raised flag again.
C39_ClickHoldsFlag ==
    /\ [](op = "click" => moving)
    /\ [][(op = "click" /\ pc["user"] = "move_after" /\ pc'["user"] = "move_delay")
            => moving']_vars

\* the move nested in a click has restored the flag and awaits its delay;
\* before the click the flag was lowered
C39_Witness ==
    /\ op = "click"
    /\ pc["user"] = "move_delay"
    /\ clickWasRandom
    /\ moving


\* C40: a cursor created at a start position with coordinates >= 0 never has
\* a negative coordinate, whatever the caller, the drop move and the
\* wandering task do and whichever dispatches fail.
C40_LocationNeverNegative == location.x >= 0 /\ location.y >= 0

\* the last dispatch of a moveTo replay is awaited after an earlier one of
\* the replay failed, while the wandering task awaits a dispatch of its own;
\* the cursor is at the corner of the page
C40_Witness ==
    /\ op = "moveTo"
    /\ pc["user"] = "mm"
    /\ failed["user"]
    /\ Len(vectors["user"]) = 1
    /\ pc["wander"] = "mm"
    /\ location = origin
    /\ lastPoint = origin

=============================================================================
